---- MODULE Spec2Model ----
(***************************************************************************)
(* Bidirectional reconciliation between the text surface held by the       *)
(* Document Owner (WebviewProvider, src/unnamed/part_003) and the Form     *)
(* Replica (SettingsEditorApp, src/unnamed/part_000) of one binding.       *)
(*                                                                         *)
(* JSON objects are sequences of [k, v] entries: JavaScript objects keep   *)
(* insertion order and JSON.stringify / === on texts see that order.       *)
(* A text is [ok, fmt, obj]: ok = it parses, fmt = its layout ("pretty" is *)
(* what JSON.stringify(x, null, 2) produces), obj = what it parses to.     *)
(* Every Date.now() - ts difference the code computes is kept as the       *)
(* elapsed time itself, saturated at the window it is compared with.       *)
(***************************************************************************)
EXTENDS Integers, Sequences, FiniteSets, TLC

\* ---------------------------------------------------------------- bounds
MaxEdits == 2
MaxFormEdits == 2
MaxInjected == 2
MaxRev == 2
MaxRefused == 1

\* envelopes and readys of the sessions of a webview that is reloaded
MaxSessionMsgs == 3

\* the inputs on the form and the external edits of a text that is edited back
MaxUndoFormEdits == 1
MaxUndoExtEdits == 2

\* the panels a provider creates and the times a document is saved under a new URI
MaxPanels == 2
MaxSaves == 1

\* input and change events on the leaf controls
MaxChangeEvents == 3

\* picks in the schema dialog, and the inputs on a form whose webview can be reloaded
MaxPicks == 1
MaxReloadEdits == 1

\* edits of $schema in the text and inputs on the form, together
MaxSchemaEdits == 2
MaxMapItems == 2

\* the .array-item elements /list holds at most, nested ones included, and the edits
\* of them
MaxListItems == 3
MaxListEdits == 4

\* the edits of a page with leaf controls, an array and an object of two variants
MaxPageEdits == 2

\* the edits of a page whose object of two variants holds an array
MaxUnionEdits == 3
TickMs == 1000

\* ------------------------------------------------------ program constants
SuppressWindowMs == 2000
EchoWindowMs == 2500
DebounceMs == 1000

\* ------------------------------------------------------------ JSON values
LeafKeys == {"a", "b"}
ArrayKey == "arr"
MapKey == "m"
Keys == LeafKeys \cup {ArrayKey, MapKey}
Scalars == {1}

\* a value is [t, v, p]: t = its type (u undefined, n null, s scalar, a array,
\* o object), v = the scalar, the elements or the [k, v] entries, p = the properties
\* an array carries beside its elements
Undef == [t |-> "u", v |-> <<>>, p |-> <<>>]
Null == [t |-> "n", v |-> <<>>, p |-> <<>>]
Scalar(n) == [t |-> "s", v |-> <<n>>, p |-> <<>>]
ArrayOf(s) == [t |-> "a", v |-> s, p |-> <<>>]
ObjectOf(entries) == [t |-> "o", v |-> entries, p |-> <<>>]

EmptyObj == <<>>

HasKey(obj, k) == \E i \in 1..Len(obj) : obj[i].k = k

IndexOfKey(obj, k) == CHOOSE i \in 1..Len(obj) : obj[i].k = k

\* root[key] of a JavaScript object
GetKey(obj, k) == IF HasKey(obj, k) THEN obj[IndexOfKey(obj, k)].v ELSE Undef

\* root[key] = value: an existing key keeps its place, a new key goes last
SetKey(obj, k, val) ==
    IF HasKey(obj, k)
    THEN [obj EXCEPT ![IndexOfKey(obj, k)] = [k |-> k, v |-> val]]
    ELSE Append(obj, [k |-> k, v |-> val])

\* delete root[key]
DelKey(obj, k) == SelectSeq(obj, LAMBDA e : e.k # k)

KeySet(obj) == {obj[i].k : i \in 1..Len(obj)}

\* ------------------------------------------------------------ JSON texts
\* the document value null: no object, equal to nothing but itself
NullDoc == <<[k |-> "null", v |-> Undef]>>

NoText == [ok |-> FALSE, fmt |-> "none", obj |-> EmptyObj]

\* JSON.stringify(value, null, 2)
Stringify(obj) == [ok |-> TRUE, fmt |-> "pretty", obj |-> obj]

\* JSON.parse succeeds on this text
Parses(text) == text.ok

\* JSON.parse(text), for a text that parses
Parse(text) == text.obj

\* ---------------------------------------------------------- JSON pointers
LeafPaths == {"/a", "/b"}
ArrayPath == "/arr"
MapPath == "/m"

\* ---- strings
Digits == "0123456789"

CharAt(s, i) == SubSeq(s, i, i)

\* s.startsWith(prefix)
startsWith(s, prefix) == Len(prefix) <= Len(s) /\ SubSeq(s, 1, Len(prefix)) = prefix

\* s.slice(n)
slice(s, n) == SubSeq(s, n + 1, Len(s))

\* s.split(sep) for a one-character separator
RECURSIVE split(_, _)
split(s, sep) ==
    IF \A i \in 1..Len(s) : CharAt(s, i) # sep THEN <<s>>
    ELSE LET i == CHOOSE j \in 1..Len(s) :
                      CharAt(s, j) = sep /\ \A h \in 1..(j - 1) : CharAt(s, h) # sep
         IN <<SubSeq(s, 1, i - 1)>> \o split(slice(s, i), sep)

\* s.replace(/from/g, to) for a literal from
RECURSIVE replaceAll(_, _, _)
replaceAll(s, from, to) ==
    IF Len(s) < Len(from) THEN s
    ELSE IF startsWith(s, from) THEN to \o replaceAll(slice(s, Len(from)), from, to)
    ELSE CharAt(s, 1) \o replaceAll(slice(s, 1), from, to)

\* /^\d+$/.test(s)
isDigits(s) ==
    /\ Len(s) > 0
    /\ \A i \in 1..Len(s) : \E d \in 1..10 : CharAt(s, i) = CharAt(Digits, d)

DigitValue(c) == (CHOOSE d \in 1..10 : CharAt(Digits, d) = c) - 1

\* Number(s) for a string of digits
RECURSIVE Number(_)
Number(s) ==
    IF Len(s) = 0 THEN 0
    ELSE 10 * Number(SubSeq(s, 1, Len(s) - 1)) + DigitValue(CharAt(s, Len(s)))

\* String(n) for a number n >= 0
RECURSIVE String(_)
String(n) ==
    IF n < 10 THEN CharAt(Digits, n + 1)
    ELSE String(n \div 10) \o CharAt(Digits, (n % 10) + 1)

\* ---- pointers
\* one part of a parsed pointer: a number (num, n, s = the property name it stands
\* for) or a string (s)
NumPart(n) == [num |-> TRUE, n |-> n, s |-> String(n)]
StrPart(s) == [num |-> FALSE, n |-> 0, s |-> s]

\* the segments split off a pointer: '~1' and '~0' decoded, all-digit segments turned
\* into numbers
parsePointer(pointer) ==
    LET raw == IF startsWith(pointer, "/") THEN slice(pointer, 1) ELSE pointer
        segs == split(raw, "/")
    IN IF raw = "" THEN <<>>
       ELSE [i \in 1..Len(segs) |->
                LET decoded == replaceAll(replaceAll(segs[i], "~1", "/"), "~0", "~")
                IN IF isDigits(decoded) THEN NumPart(Number(decoded)) ELSE StrPart(decoded)]

\* cur[part] of a value that is neither null nor undefined
GetProp(cur, part) ==
    IF cur.t = "o" THEN GetKey(cur.v, part.s)
    ELSE IF cur.t = "a"
    THEN IF part.num
         THEN IF part.n < Len(cur.v) THEN cur.v[part.n + 1] ELSE Undef
         ELSE GetKey(cur.p, part.s)
    ELSE Undef

\* cur[part] = value on an object or an array: an index past the end leaves holes
SetProp(cur, part, value) ==
    IF cur.t = "o" THEN [cur EXCEPT !.v = SetKey(@, part.s, value)]
    ELSE IF cur.t = "a"
    THEN IF part.num
         THEN [cur EXCEPT !.v = [i \in 1..(IF part.n < Len(@) THEN Len(@) ELSE part.n + 1) |->
                                    IF i = part.n + 1 THEN value
                                    ELSE IF i <= Len(@) THEN @[i] ELSE Undef]]
         ELSE [cur EXCEPT !.p = SetKey(@, part.s, value)]
    ELSE cur

\* delete cur[last] also for an index of an array: the element becomes a hole
DelPropHole(cur, last) ==
    IF cur.t = "o" THEN [cur EXCEPT !.v = DelKey(@, last.s)]
    ELSE IF cur.t = "a"
    THEN IF last.num
         THEN IF last.n < Len(cur.v) THEN [cur EXCEPT !.v[last.n + 1] = Undef] ELSE cur
         ELSE [cur EXCEPT !.p = DelKey(@, last.s)]
    ELSE cur

\* delete cur[last], or cur.splice(last, 1) for an index of an array
DelProp(cur, last) ==
    IF cur.t = "o" THEN [cur EXCEPT !.v = DelKey(@, last.s)]
    ELSE IF cur.t = "a"
    THEN IF last.num
         THEN IF last.n < Len(cur.v)
              THEN [cur EXCEPT !.v = SubSeq(@, 1, last.n) \o SubSeq(@, last.n + 2, Len(@))]
              ELSE cur
         ELSE [cur EXCEPT !.p = DelKey(@, last.s)]
    ELSE cur

\* the loop of getValueAtPointer from cur on
RECURSIVE GetAt(_, _)
GetAt(cur, parts) ==
    IF parts = <<>> THEN cur
    ELSE IF cur.t \in {"n", "u"} THEN Undef
    ELSE GetAt(GetProp(cur, Head(parts)), Tail(parts))

\* the loop of setValueAtPointer from cur on, for parts that are not empty: a missing
\* node is created as an array before a number and as an object otherwise; reading or
\* writing a property of null or of a scalar throws, which leaves cur as it was
RECURSIVE SetAt(_, _, _)
SetAt(cur, parts, value) ==
    IF cur.t \notin {"o", "a"} THEN cur
    ELSE IF Len(parts) = 1 THEN SetProp(cur, parts[1], value)
    ELSE LET found == GetProp(cur, parts[1])
             child == IF found = Undef
                      THEN IF parts[2].num THEN ArrayOf(<<>>) ELSE ObjectOf(<<>>)
                      ELSE found
         IN IF child.t \notin {"o", "a"} THEN cur
            ELSE SetProp(cur, parts[1], SetAt(child, Tail(parts), value))

\* setValueAtPointer from cur on ends in a TypeError
RECURSIVE SetThrows(_, _)
SetThrows(cur, parts) ==
    IF cur.t \notin {"o", "a"} THEN TRUE
    ELSE IF Len(parts) = 1 THEN FALSE
    ELSE LET found == GetProp(cur, parts[1])
             child == IF found = Undef
                      THEN IF parts[2].num THEN ArrayOf(<<>>) ELSE ObjectOf(<<>>)
                      ELSE found
         IN SetThrows(child, Tail(parts))

\* the loop of deleteValueAtPointer from cur on, for parts that are not empty: nothing
\* is deleted below a node that is missing, null or a scalar
RECURSIVE DelAt(_, _)
DelAt(cur, parts) ==
    IF cur.t \notin {"o", "a"} THEN cur
    ELSE IF Len(parts) = 1 THEN DelProp(cur, parts[1])
    ELSE IF GetProp(cur, parts[1]).t \notin {"o", "a"} THEN cur
    ELSE SetProp(cur, parts[1], DelAt(GetProp(cur, parts[1]), Tail(parts)))

\* getValueAtPointer(root, pointer) on a root object
getValueAtPointer(root, pointer) == GetAt(ObjectOf(root), parsePointer(pointer))

\* setValueAtPointer(root, pointer, value) on a root object: the root afterwards
setValueAtPointer(root, pointer, value) ==
    LET parts == parsePointer(pointer)
    IN IF parts = <<>> THEN root ELSE SetAt(ObjectOf(root), parts, value).v

\* deleteValueAtPointer(root, pointer) on a root object: the root afterwards
deleteValueAtPointer(root, pointer) ==
    LET parts == parsePointer(pointer)
    IN IF parts = <<>> THEN root ELSE DelAt(ObjectOf(root), parts).v

\* path === root || path.startsWith(root + '/')
IsPathPrefix(root, path) == path = root \/ startsWith(path, root \o "/")

\* a JavaScript Set: insertion-ordered, no duplicates
SetAdd(s, x) == IF \E i \in 1..Len(s) : s[i] = x THEN s ELSE Append(s, x)
SetDelete(s, x) == SelectSeq(s, LAMBDA y : y # x)
SetHas(s, x) == \E i \in 1..Len(s) : s[i] = x

\* deepEqualJson comparing the keys in the order they stand in
deepEqualJsonOrdered(x, y) == x = y

\* deepEqualJson of two values under a key: objects by their keys, whatever the
\* order, everything else element by element
deepEqualValue(a, b) ==
    IF a.t = "o" /\ b.t = "o"
    THEN /\ KeySet(a.v) = KeySet(b.v)
         /\ \A k \in KeySet(a.v) : GetKey(a.v, k) = GetKey(b.v, k)
    ELSE a = b

\* Object.keys-order-insensitive equality of two parsed documents
deepEqualJson(x, y) ==
    /\ KeySet(x) = KeySet(y)
    /\ \A k \in KeySet(x) : deepEqualValue(GetKey(x, k), GetKey(y, k))

\* JSON.parse(JSON.stringify(value))
cloneJsonAsIs(value) == Parse(Stringify(value))

\* JSON.parse(JSON.stringify(value ?? {}))
cloneJson(value) == IF value = NullDoc THEN EmptyObj ELSE Parse(Stringify(value))

\* --------------------------------------------------------------- messages
Msg(command, json, rev, sessionId, ok, reason) ==
    [command |-> command, json |-> json, rev |-> rev, sessionId |-> sessionId,
     ok |-> ok, reason |-> reason]

ReadyMsg(sid) == Msg("ready", NoText, 0, sid, TRUE, "")
UpdateJsonMsg(json, rev, sid, reason) == Msg("updateJson", json, rev, sid, TRUE, reason)
LoadSchemaMsg == Msg("loadSchema", NoText, 0, 0, TRUE, "")
LoadJsonMsg(json) == Msg("loadJson", json, 0, 0, TRUE, "")
InitialJsonMsg(json) == Msg("loadJson", json, 0, 0, TRUE, "ready")
ShowErrorMsg == Msg("showError", NoText, 0, 0, FALSE, "parse")
AckMsg(ok, rev, reason) == Msg("updateJsonAck", NoText, rev, 0, ok, reason)

\* ------------------------------------------------------------------ state
VARIABLES
    \* Form Replica (SettingsEditorApp)
    data,                  \* this.data
    baseData,              \* this._baseData
    dirtyPaths,            \* this._dirtyPaths
    dirtyCollectionPaths,  \* this._dirtyCollectionPaths
    ctl,                   \* value of the leaf control bound to each path (0 = empty)
    arrItems,              \* values of the item controls of the array at /arr
    mapItems,              \* key and value controls of the items of the map at /m
    hasForm,               \* the form markup has been rendered (loadSchema handled)
    sessionId,             \* this._sessionId
    syncRev,               \* this._syncRev
    lastSentRev,           \* this._lastSentRev
    lastAckRev,            \* this._lastAckRev
    lastSentJsonText,      \* this._lastSentJsonText
    lastSentJsonTs,        \* Date.now() - this._lastSentJsonTs
    \* Document Owner (WebviewProvider), one binding
    text,                  \* sourceDocument.getText()
    suppress,              \* _suppressNextDocToWebviewSync.get(panelId)
    syncTimer,             \* _docToWebviewSyncTimers.get(panelId): time since armed
    lastApplied,           \* _lastAppliedRevMap.get(panelId)
    pendingData,           \* _pendingDataMap.get(panelId)
    ownerPc,               \* where the handler at the head of the message queue is
    cur,                   \* the message that handler is handling
    isDirty,               \* sourceDocument.isDirty
    written,               \* history: the write the owner recorded within the last window
    \* Sync Channel
    toOwner,               \* webview.postMessage -> _enqueueMessage chain
    toForm,                \* panel.webview.postMessage -> window 'message' events
    \* environment: what has been done to the binding so far
    nFormEdits,            \* form edits made
    nExtEdits,             \* external edits made
    nRefused,              \* edits the workspace refused
    nInjected,             \* messages put on a channel by the arbitrary-input specifications
    extChange,             \* <<key, value>> left by the external edits (Undef = removed)
    formTouched,           \* pointers of the controls and collections the user edited
    ackLog,                \* history: revs of the ok acknowledgments the form has handled
    lastLoad,              \* history: what the form did with the last loadJson it handled
                           \* since its last edit
    \* Form Replica, the rest of its page
    dom,                   \* the elements of #formEditor beside the controls above
    \* Document Owner, the rest of its state
    schemaUrl,             \* _panelSchemaUrlMap.get(panelId)
    reload,                \* timer callbacks suspended at "await this._loadSchema(...)"
    appliedRev,            \* history: per session, the highest rev applied to the text
    reg,                   \* the maps of the provider, over every panel and panelId
    snapshotSent,          \* history: the sessions whose page the owner posted a loadJson to
    \* one call of a function of the replica, apart from any binding
    call                   \* its arguments and what it returned

formVars == <<data, baseData, dirtyPaths, dirtyCollectionPaths, ctl, arrItems, mapItems,
             hasForm,
              sessionId, syncRev, lastSentRev, lastAckRev, lastSentJsonText, lastSentJsonTs>>
ownerVars == <<text, suppress, syncTimer, lastApplied, pendingData, ownerPc, cur, isDirty, written>>
extVars == <<schemaUrl, reload, appliedRev, reg, snapshotSent>>
envVars == <<nFormEdits, nExtEdits, nRefused, nInjected, extChange, formTouched, ackLog,
            lastLoad, dom, call, extVars>>
vars == <<formVars, ownerVars, toOwner, toForm, envVars>>

\* everything but the rest of the page and the function call
bindingVars == <<formVars, ownerVars, toOwner, toForm, nFormEdits, nExtEdits, nRefused,
                 nInjected, extChange, formTouched, ackLog, lastLoad, extVars>>

NoSuppress == [json |-> NoText, ts |-> SuppressWindowMs, set |-> FALSE]
NoApplied == [sessionId |-> 0, rev |-> 0, set |-> FALSE]
NoTimer == [set |-> FALSE, elapsed |-> DebounceMs]
NoLoad == [did |-> "none", same |-> FALSE, reordered |-> FALSE, late |-> FALSE]

NoMsg == Msg("none", NoText, 0, 0, FALSE, "")

Min(x, y) == IF x < y THEN x ELSE y

InitialTexts ==
    { Stringify(<<[k |-> "a", v |-> Scalar(1)], [k |-> ArrayKey, v |-> ArrayOf(<<Scalar(1)>>)]>>) }

\* no element beside the controls of ctl, arrItems and mapItems
NoDom == [list |-> <<>>, controls |-> <<>>, selector |-> 0, html |-> <<>>]

\* no function has been called
NoCall == [fn |-> "none", root |-> EmptyObj, base |-> EmptyObj, pointer |-> "",
           value |-> Undef, out |-> Undef, threw |-> FALSE]

\* no schema URL: undefined
NoUrl == 0

\* the key of a document that names its schema, and the URLs it can hold: strings,
\* numbered from 100 (a scalar below 100 is not a string)
SchemaKey == "$schema"
SchemaUrls == {100, 101}

\* the schema URL openEditor was called with
BoundSchemaUrl == 100

\* the sessions of the Form Replica: the first load of the webview and a reload
Sessions == {1, 2}

\* the documents of the workspace, the URIs they can have and the panels the provider
\* can create
Docs == {1, 2}
UntitledUri == "untitled:1"
FileUris == {"file:a", "file:b"}
Uris == {UntitledUri} \cup FileUris
Panels == 1..MaxPanels
NoPanel == 0
NoKey == ""

\* the provider's maps before any panel is opened; of the maps keyed by panelId the
\* keys are kept: document 1 is untitled, document 2 is a file
NoRegistry ==
    [uri |-> [d \in Docs |-> IF d = 1 THEN UntitledUri ELSE "file:b"],
     created |-> 0,
     disposed |-> {},
     closureId |-> [p \in Panels |-> NoKey],
     handling |-> [p \in Panels |-> NoKey],
     keysOf |-> [p \in Panels |-> {}],
     saves |-> 0,
     webviewPanelMap |-> [k \in Uris |-> NoPanel],
     panelToIdMap |-> [p \in Panels |-> NoKey],
     sourceUriMap |-> [p \in Panels |-> NoKey],
     panelByDocument |-> [d \in Docs |-> NoPanel],
     pendingDataMap |-> {},
     panelSchemaUrlMap |-> {},
     suppressNextDocToWebviewSync |-> {},
     docToWebviewSyncTimers |-> {},
     messageQueueMap |-> {},
     lastAppliedRevMap |-> {}]

\* the binding after construction of both sides, the bound document being one of texts
InitBinding(texts) ==
    /\ data = EmptyObj
    /\ baseData = EmptyObj
    /\ dirtyPaths = <<>>
    /\ dirtyCollectionPaths = <<>>
    /\ ctl = [p \in LeafPaths |-> 0]
    /\ arrItems = <<>>
    /\ mapItems = <<>>
    /\ hasForm = FALSE
    /\ sessionId = 1
    /\ syncRev = 0
    /\ lastSentRev = 0
    /\ lastAckRev = 0
    /\ lastSentJsonText = NoText
    /\ lastSentJsonTs = EchoWindowMs
    /\ text \in texts
    /\ suppress = NoSuppress
    /\ syncTimer = NoTimer
    /\ lastApplied = NoApplied
    /\ pendingData = Stringify(Parse(text))
    /\ ownerPc = "idle"
    /\ cur = NoMsg
    /\ isDirty = FALSE
    /\ written = NoSuppress
    /\ toOwner = <<ReadyMsg(1)>>
    /\ toForm = <<>>
    /\ nFormEdits = 0
    /\ nExtEdits = 0
    /\ nRefused = 0
    /\ nInjected = 0
    /\ extChange = {}
    /\ formTouched = {}
    /\ ackLog = <<>>
    /\ lastLoad = NoLoad
    /\ schemaUrl = BoundSchemaUrl
    /\ reload = <<>>
    /\ appliedRev = [sid \in Sessions |-> 0]
    /\ reg = NoRegistry
    /\ snapshotSent = {}

\* the state after construction, with a page that holds the controls above only
InitFrom(texts) ==
    /\ InitBinding(texts)
    /\ dom = NoDom
    /\ call = NoCall

Init == InitFrom(InitialTexts)

\* documents with a map at /m: an empty one, one with an entry and one that also has
\* an entry whose key fails the pattern
MapInitialTexts ==
    { Stringify(<<[k |-> "a", v |-> Scalar(1)], [k |-> MapKey, v |-> ObjectOf(entries)]>>) :
          entries \in {EmptyObj, <<[k |-> "x", v |-> Scalar(1)]>>,
                       <<[k |-> "x", v |-> Scalar(1)], [k |-> "Z", v |-> Scalar(1)]>>} }

InitMap == InitFrom(MapInitialTexts)

\* ------------------------------------------------------------ Form Replica
\* readControlValue of a string control: trimmed empty text means "not set"
readControlValue(c) == IF c = 0 THEN Undef ELSE Scalar(c)

valuesEqual(x, y) == x = y

isUnderDirtyCollection(path, dcs) ==
    \E i \in 1..Len(dcs) : IsPathPrefix(dcs[i], path)

\* markDirtyFromControl that adds the path whatever the value is
markDirtyFromControlAlways(dps, base, path, c) == SetAdd(dps, path)

\* markDirtyFromControl for a leaf control that has no collection root
markDirtyFromControl(dps, base, path, c) ==
    IF valuesEqual(readControlValue(c), getValueAtPointer(base, path))
    THEN SetDelete(dps, path)
    ELSE SetAdd(dps, path)

\* collectArrayObjectValue for the scalar array at /arr: unset items are left out
collectArrayObjectValue(items) ==
    LET set == SelectSeq(items, LAMBDA c : readControlValue(c) # Undef)
    IN [i \in 1..Len(set) |-> readControlValue(set[i])]

\* a control holds non-empty text that fails its validity
BadInput == -1

\* isControlInInvalidEditState(control) for a control that is enabled and not part of
\* an inactive variant
isControlInInvalidEditState(c) == c = BadInput

\* ---- the other leaf controls of the page
\* Beside the controls of ctl the page can hold leaf controls in d.controls, in document
\* order, each [path, value, variant, const, disabled]: its data-path, its text, the
\* data-anyof-index of the .anyof-variant it stands in (NoVariant: in none), its
\* data-const (Undef: none) and its disabled property.  d.selector is the value of the
\* .anyof-selector of the one .anyof-object, at /u.
NoVariant == -1
AnyOfPath == "/u"
DiscriminatorKey == "type"

\* the data-array-path of the .array-object of scalars that the second variant holds
\* when the page has one; its template is the control of d.html at /u/s/__INDEX__
InnerArrayPath == AnyOfPath \o "/s"
InnerTemplatePath == InnerArrayPath \o "/__INDEX__"

\* the control stands in an .array-item of that .array-object
IsInnerItem(control) == startsWith(control.path, InnerArrayPath \o "/")

\* the controls of the .array-item elements of that .array-object, in document order
InnerItems(d) == SelectSeq(d.controls, IsInnerItem)

\* the template of that .array-object, if the page has it
InnerTemplates(d) == SelectSeq(d.html, LAMBDA control : control.path = InnerTemplatePath)

\* getCollectionRootForControl(control) for a control of d.controls
getCollectionRootForControl(control) ==
    IF IsInnerItem(control) THEN InnerArrayPath ELSE "none"

\* the closest .anyof-variant of the control does not have data-anyof-active="false"
IsActive(d, control) == control.variant \in {NoVariant, d.selector}

\* readControlValue(control)
readControlValueOf(d, control) ==
    IF ~IsActive(d, control) THEN Undef
    ELSE IF control.const # Undef THEN control.const
    ELSE IF control.disabled THEN Undef
    ELSE readControlValue(control.value)

\* isControlInInvalidEditState(control)
isControlInInvalidEditStateOf(d, control) ==
    /\ IsActive(d, control)
    /\ ~control.disabled
    /\ isControlInInvalidEditState(control.value)

\* document.querySelector('input[data-path="..."][data-type], ...'): the controls of the
\* page that have this data-path, in document order; the first one is the match
queryControls(c, d, path) ==
    IF path \in DOMAIN c
    THEN <<[path |-> path, value |-> c[path], variant |-> NoVariant, const |-> Undef,
            disabled |-> FALSE]>>
    ELSE SelectSeq(d.controls, LAMBDA control : control.path = path)

\* the end of the body of the loop of buildUpdatedJson over the dirty leaves: the value
\* read from the control is deleted when undefined and set otherwise
ApplyValue(updated, path, value) ==
    IF value = Undef THEN deleteValueAtPointer(updated, path)
    ELSE setValueAtPointer(updated, path, value)

\* the body of that loop once the controls with the data-path have been found
ApplyControl(updated, path, dcs, d, found) ==
    IF isUnderDirtyCollection(path, dcs) THEN updated
    ELSE IF found = <<>> THEN updated
    ELSE IF isControlInInvalidEditStateOf(d, found[1]) THEN updated
    ELSE ApplyValue(updated, path, readControlValueOf(d, found[1]))

RECURSIVE ApplyDirtyPaths(_, _, _, _, _)
ApplyDirtyPaths(updated, paths, dcs, c, d) ==
    IF paths = <<>> THEN updated
    ELSE ApplyDirtyPaths(
             ApplyControl(updated, Head(paths), dcs, d, queryControls(c, d, Head(paths))),
             Tail(paths), dcs, c, d)

\* a key text that matches data-map-key-pattern
KeyMatchesPattern(k) == k \in {"x", "y/z"}

\* encodeJsonPointerSegment(seg)
encodeJsonPointerSegment(seg) == replaceAll(replaceAll(seg, "~", "~0"), "/", "~1")

\* the data-path rebindMapItem gives an element of the item whose data-path is p
RebindPath(p, mapPath, prevSeg, newSeg) ==
    IF startsWith(p, mapPath \o "/" \o prevSeg)
    THEN mapPath \o "/" \o newSeg \o slice(p, Len(mapPath \o "/" \o prevSeg))
    ELSE IF startsWith(p, mapPath \o "/__KEY__")
    THEN mapPath \o "/" \o newSeg \o slice(p, Len(mapPath \o "/__KEY__"))
    ELSE p

\* rebindMapItem recording the new segment without rewriting the data-path
rebindMapItemKeepPath(mapPath, item) ==
    IF item.key # ""
    THEN [item EXCEPT !.seg = encodeJsonPointerSegment(item.key)]
    ELSE item

\* rebindMapItem(mapPath, itemEl) for a .map-item [key, seg, path, val]: the text of its
\* key input, its data-map-key-seg, the data-path and the text of its value control;
\* the value control is disabled while the key is empty
rebindMapItem(mapPath, item) ==
    IF item.key # ""
    THEN [item EXCEPT !.path = RebindPath(item.path, mapPath, item.seg,
                                          encodeJsonPointerSegment(item.key)),
                      !.seg = encodeJsonPointerSegment(item.key)]
    ELSE item

\* createMapItemFromTemplate(template, mapEl, mapPath, key)
createMapItemFromTemplate(mapPath, key) ==
    rebindMapItem(mapPath, [key |-> key, seg |-> "__KEY__",
                            path |-> mapPath \o "/__KEY__", val |-> 0])

\* item.querySelector('[data-map-role="value"][data-path="' + valuePrefix + '"]') finds
\* the value control of the item
HasScalarAtKey(item) ==
    item.path = MapPath \o "/" \o encodeJsonPointerSegment(item.key)

\* validateMapObject(mapPath): every non-empty key matches the pattern and no key that
\* does stands in two items
validateMapObject(mitems) ==
    /\ \A i \in 1..Len(mitems) : mitems[i].key # "" => KeyMatchesPattern(mitems[i].key)
    /\ \A i, j \in 1..Len(mitems) :
           (i # j /\ mitems[i].key # "") => mitems[i].key # mitems[j].key

\* the loop of collectMapObjectValue over the items of a valid map: items without a
\* key or without a value are left out
RECURSIVE CollectMapEntries(_, _)
CollectMapEntries(result, mitems) ==
    IF mitems = <<>> THEN result
    ELSE LET item == Head(mitems)
             next == IF \/ item.key = ""
                        \/ ~HasScalarAtKey(item)
                        \/ readControlValue(item.val) = Undef
                     THEN result
                     ELSE SetKey(result, item.key, readControlValue(item.val))
         IN CollectMapEntries(next, Tail(mitems))

\* collectMapObjectValue(mapPath) for the scalar-valued map at /m: undefined when the
\* map does not validate or a value control of a keyed item is in an invalid edit state
collectMapObjectValue(mitems) ==
    IF ~validateMapObject(mitems) THEN Undef
    ELSE IF \E i \in 1..Len(mitems) :
                /\ mitems[i].key # ""
                /\ HasScalarAtKey(mitems[i])
                /\ isControlInInvalidEditState(mitems[i].val)
    THEN Undef
    ELSE ObjectOf(CollectMapEntries(EmptyObj, mitems))

\* ------------------------------------------------ the object array at /list
\* Beside the controls above, the page holds an array of objects at /list whose items
\* have a string n and an array of strings c.  An .array-item of /list is
\* [index, uid, removePath, n, cPath, c]: its data-array-index, the add that made it
\* (0 and below: rendered from the data), the data-array-path of its remove button,
\* the control of n, the data-array-path of the .array-object of c and the .array-item
\* elements of c.  An .array-item of c is [index, uid, removePath, v].  A control is
\* [path, value]: its data-path and its text.
ListKey == "list"
ListPath == "/list"

\* the content of <template id="array-template-..."> of /list and of c
ListTemplate ==
    [index |-> 0, uid |-> 0, removePath |-> "/list",
     n |-> [path |-> "/list/__INDEX__/n", value |-> 0],
     cPath |-> "/list/__INDEX__/c", c |-> <<>>]

NestedTemplate ==
    [index |-> 0, uid |-> 0, removePath |-> "/list/__INDEX__/c",
     v |-> [path |-> "/list/__INDEX__/c/__INDEX__", value |-> 0]]

\* s.replace(/\/__KEY__(?=\/|$)/g, '/' + keySeg)
RECURSIVE replaceKeyPlaceholder(_, _)
replaceKeyPlaceholder(s, keySeg) ==
    IF Len(s) < Len("/__KEY__") THEN s
    ELSE IF /\ startsWith(s, "/__KEY__")
            /\ (Len(s) = Len("/__KEY__") \/ CharAt(s, Len("/__KEY__") + 1) = "/")
    THEN "/" \o keySeg \o replaceKeyPlaceholder(slice(s, Len("/__KEY__")), keySeg)
    ELSE CharAt(s, 1) \o replaceKeyPlaceholder(slice(s, 1), keySeg)

\* keySeg of createArrayItemFromTemplate: the last non-empty segment of arrayPath
LastSegment(arrayPath) ==
    LET parts == SelectSeq(split(arrayPath, "/"), LAMBDA s : s # "")
    IN IF Len(parts) > 0 THEN parts[Len(parts)] ELSE ""

\* the data-path createArrayItemFromTemplate gives a control of the clone
InstantiatePath(p, arrayPath, index) ==
    LET updated == replaceAll(p, "__INDEX__", String(index))
        keySeg == LastSegment(arrayPath)
    IN IF keySeg # "" THEN replaceKeyPlaceholder(updated, keySeg) ELSE updated

\* createArrayItemFromTemplate(template, arrayPath, index): data-array-path of the
\* .array-object of c is left as the template has it
createArrayItemFromTemplate(template, arrayPath, index) ==
    IF "n" \in DOMAIN template
    THEN [template EXCEPT !.index = index, !.removePath = arrayPath,
                          !.n.path = InstantiatePath(template.n.path, arrayPath, index)]
    ELSE [template EXCEPT !.index = index, !.removePath = arrayPath,
                          !.v.path = InstantiatePath(template.v.path, arrayPath, index)]

\* the .array-item elements under the .array-items of /list from item k on, in document
\* order: <<k, 0>> is item k of /list, <<k, j>> item j of its c
RECURSIVE ListElements(_, _)
ListElements(litems, k) ==
    IF k > Len(litems) THEN <<>>
    ELSE <<<<k, 0>>>> \o [j \in 1..Len(litems[k].c) |-> <<k, j>>]
         \o ListElements(litems, k + 1)

\* formEditor.querySelector('.array-object[data-array-path="..."]'): the .array-object
\* of /list, the first one of a c, or none
queryArrayObject(litems, arrayPath) ==
    IF arrayPath = ListPath THEN "list"
    ELSE IF \E k \in 1..Len(litems) : litems[k].cPath = arrayPath THEN "c"
    ELSE "none"

\* itemsContainer.querySelectorAll('.array-item') for the container
\* document.getElementById('array-items-' + arrayDom): every .array-object of a c has
\* the same data-array-dom, so its container is the one in the first item of /list
ContainerElements(litems, arrayPath) ==
    IF queryArrayObject(litems, arrayPath) = "list" THEN ListElements(litems, 1)
    ELSE IF queryArrayObject(litems, arrayPath) = "c"
    THEN [j \in 1..Len(litems[1].c) |-> <<1, j>>]
    ELSE <<>>

\* addArrayItem(arrayPath), the new item being the one add number uid makes
addArrayItem(litems, arrayPath, uid) ==
    LET index == Len(ContainerElements(litems, arrayPath))
    IN IF queryArrayObject(litems, arrayPath) = "list"
       THEN Append(litems,
                [createArrayItemFromTemplate(ListTemplate, arrayPath, index)
                     EXCEPT !.uid = uid])
       ELSE IF queryArrayObject(litems, arrayPath) = "c"
       THEN [litems EXCEPT ![1].c = Append(litems[1].c,
                [createArrayItemFromTemplate(NestedTemplate, arrayPath, index)
                     EXCEPT !.uid = uid])]
       ELSE litems

\* itemEl.remove()
RemoveElement(litems, addr) ==
    IF addr[2] = 0
    THEN SubSeq(litems, 1, addr[1] - 1) \o SubSeq(litems, addr[1] + 1, Len(litems))
    ELSE [litems EXCEPT ![addr[1]].c =
              SubSeq(litems[addr[1]].c, 1, addr[2] - 1)
              \o SubSeq(litems[addr[1]].c, addr[2] + 1, Len(litems[addr[1]].c))]

\* p.replace(new RegExp('^' + arrayPath + '\/\d+(?=\/|$)'), arrayPath + '/' + newIndex)
ReindexPath(p, arrayPath, newIndex) ==
    IF ~startsWith(p, arrayPath \o "/") THEN p
    ELSE LET rest == slice(p, Len(arrayPath) + 1)
             seg == split(rest, "/")[1]
         IN IF isDigits(seg)
            THEN arrayPath \o "/" \o String(newIndex) \o slice(rest, Len(seg))
            ELSE p

\* the body of the forEach of reindexArrayItems for one .array-item: its
\* data-array-index, and the data-path of every control under it
ReindexElement(litems, addr, arrayPath, newIndex) ==
    LET item == litems[addr[1]]
    IN IF addr[2] = 0
       THEN [litems EXCEPT ![addr[1]] =
                [item EXCEPT
                    !.index = newIndex,
                    !.n.path = ReindexPath(item.n.path, arrayPath, newIndex),
                    !.c = [j \in 1..Len(item.c) |->
                              [item.c[j] EXCEPT
                                  !.v.path = ReindexPath(item.c[j].v.path, arrayPath,
                                                         newIndex)]]]]
       ELSE [litems EXCEPT ![addr[1]].c[addr[2]] =
                [item.c[addr[2]] EXCEPT
                    !.index = newIndex,
                    !.v.path = ReindexPath(item.c[addr[2]].v.path, arrayPath, newIndex)]]

RECURSIVE ReindexElements(_, _, _, _)
ReindexElements(litems, elements, arrayPath, newIndex) ==
    IF elements = <<>> THEN litems
    ELSE ReindexElements(ReindexElement(litems, Head(elements), arrayPath, newIndex),
                         Tail(elements), arrayPath, newIndex + 1)

\* reindexArrayItems(arrayPath)
reindexArrayItems(litems, arrayPath) ==
    ReindexElements(litems, ContainerElements(litems, arrayPath), arrayPath, 0)

\* removeArrayItem(arrayPath, itemEl)
removeArrayItem(litems, arrayPath, addr) ==
    reindexArrayItems(RemoveElement(litems, addr), arrayPath)

\* itemEl.querySelectorAll('[data-path]') that are controls, in document order
ElementControls(litems, addr) ==
    IF addr[2] = 0
    THEN <<litems[addr[1]].n>>
         \o [j \in 1..Len(litems[addr[1]].c) |-> litems[addr[1]].c[j].v]
    ELSE <<litems[addr[1]].c[addr[2]].v>>

\* parseInt(itemEl.getAttribute('data-array-index'), 10)
ElementIndex(litems, addr) ==
    IF addr[2] = 0 THEN litems[addr[1]].index ELSE litems[addr[1]].c[addr[2]].index

\* arrayPath + '/' + index
ElementPrefix(litems, addr, arrayPath) ==
    arrayPath \o "/" \o String(ElementIndex(litems, addr))

\* the object branch of collectArrayObjectValue for one item: the values of the
\* controls bound under prefix, each set at its pointer relative to prefix
RECURSIVE CollectItemObject(_, _, _)
CollectItemObject(obj, controls, prefix) ==
    IF controls = <<>> THEN obj
    ELSE LET c == Head(controls)
             value == readControlValue(c.value)
             next == IF ~startsWith(c.path, prefix \o "/") \/ value = Undef THEN obj
                     ELSE setValueAtPointer(obj, slice(c.path, Len(prefix)), value)
         IN CollectItemObject(next, Tail(controls), prefix)

\* the loop of collectArrayObjectValue over the .array-item elements of the container
RECURSIVE CollectElements(_, _, _, _)
CollectElements(result, litems, elements, arrayPath) ==
    IF elements = <<>> THEN result
    ELSE LET prefix == ElementPrefix(litems, Head(elements), arrayPath)
             controls == ElementControls(litems, Head(elements))
             direct == SelectSeq(controls, LAMBDA c : c.path = prefix)
             obj == CollectItemObject(EmptyObj, controls, prefix)
             next == IF direct # <<>>
                     THEN IF readControlValue(direct[1].value) # Undef
                          THEN Append(result, readControlValue(direct[1].value))
                          ELSE result
                     ELSE IF Len(obj) > 0 THEN Append(result, ObjectOf(obj))
                     ELSE result
         IN CollectElements(next, litems, Tail(elements), arrayPath)

\* a control that collectArrayObjectValue reads is in an invalid edit state
CollectMeetsInvalid(litems, elements, arrayPath) ==
    \E e \in 1..Len(elements) :
        LET prefix == ElementPrefix(litems, elements[e], arrayPath)
            controls == ElementControls(litems, elements[e])
            direct == SelectSeq(controls, LAMBDA c : c.path = prefix)
        IN IF direct # <<>> THEN isControlInInvalidEditState(direct[1].value)
           ELSE \E i \in 1..Len(controls) :
                    /\ startsWith(controls[i].path, prefix \o "/")
                    /\ isControlInInvalidEditState(controls[i].value)

\* collectArrayObjectValue(arrayPath) for an .array-object of /list or of a c
collectArrayObjectValueAt(litems, arrayPath) ==
    IF CollectMeetsInvalid(litems, ContainerElements(litems, arrayPath), arrayPath)
    THEN Undef
    ELSE ArrayOf(CollectElements(<<>>, litems, ContainerElements(litems, arrayPath),
                                 arrayPath))

\* collectArrayObjectValue(arrayPath) for the .array-object of scalars in the variant
collectArrayObjectValueOf(d) ==
    LET items == InnerItems(d)
        set == SelectSeq(items, LAMBDA control : readControlValueOf(d, control) # Undef)
    IN IF \E i \in 1..Len(items) : isControlInInvalidEditStateOf(d, items[i]) THEN Undef
       ELSE ArrayOf([i \in 1..Len(set) |-> readControlValueOf(d, set[i])])

\* collectCollectionValue(path)
collectCollectionValue(path, items, mitems, d) ==
    IF path = ArrayPath
    THEN IF \E i \in 1..Len(items) : isControlInInvalidEditState(items[i]) THEN Undef
         ELSE ArrayOf(collectArrayObjectValue(items))
    ELSE IF path = InnerArrayPath /\ InnerTemplates(d) # <<>>
    THEN collectArrayObjectValueOf(d)
    ELSE IF queryArrayObject(d.list, path) # "none"
    THEN collectArrayObjectValueAt(d.list, path)
    ELSE IF path = MapPath THEN collectMapObjectValue(mitems)
    ELSE ArrayOf(<<>>)

\* the body of the loop of buildUpdatedJson over the dirty collections, once the
\* collection has been collected: withheld, deleted when empty, set otherwise
ApplyCollected(updated, collectionPath, collected) ==
    IF collected = Undef THEN updated
    ELSE IF Len(collected.v) = 0 THEN deleteValueAtPointer(updated, collectionPath)
    ELSE setValueAtPointer(updated, collectionPath, collected)

RECURSIVE ApplyDirtyCollections(_, _, _, _, _)
ApplyDirtyCollections(updated, dcs, items, mitems, d) ==
    IF dcs = <<>> THEN updated
    ELSE ApplyDirtyCollections(
             ApplyCollected(updated, Head(dcs),
                            collectCollectionValue(Head(dcs), items, mitems, d)),
             Tail(dcs), items, mitems, d)

\* base?.[key]
BaseChild(base, part) == IF base.t \in {"n", "u"} THEN Undef ELSE GetProp(base, part)

\* the test of pruneEmptyObjects on one child: the child is an empty object and the
\* base has nothing there or has an empty object or array there
IsPruned(child, baseChild) ==
    /\ child.t = "o"
    /\ Len(child.v) = 0
    /\ \/ baseChild = Undef
       \/ baseChild.t \in {"o", "a"} /\ Len(baseChild.v) = 0 /\ Len(baseChild.p) = 0

\* pruneEmptyObjects(node, base) on values
RECURSIVE PruneNode(_, _)
PruneNode(node, base) ==
    IF node.t = "a"
    THEN ArrayOf([i \in 1..Len(node.v) |->
                     PruneNode(node.v[i], BaseChild(base, NumPart(i - 1)))])
    ELSE IF node.t = "o"
    THEN LET pruned == [i \in 1..Len(node.v) |->
                           [k |-> node.v[i].k,
                            v |-> PruneNode(node.v[i].v, BaseChild(base, StrPart(node.v[i].k)))]]
         IN ObjectOf(SelectSeq(pruned,
                LAMBDA e : ~IsPruned(e.v, BaseChild(base, StrPart(e.k)))))
    ELSE node

\* pruneEmptyObjects(node, base) on root objects
pruneEmptyObjects(node, base) == PruneNode(ObjectOf(node), ObjectOf(base)).v

buildUpdatedJson(base, dps, dcs, c, items, mitems, d) ==
    pruneEmptyObjects(
        ApplyDirtyCollections(ApplyDirtyPaths(cloneJson(base), dps, dcs, c, d), dcs, items,
                              mitems, d),
        base)

\* updateFormInputs: every leaf control shows this.data at its path, '' when unset
updateFormInputs(d) ==
    [p \in LeafPaths |->
        LET value == getValueAtPointer(d, p)
        IN IF value.t = "s" THEN value.v[1] ELSE 0]

\* renderArrayObjectItemsFromData(base) followed by updateFormInputs(): one item per
\* element of the base array, each showing this.data at /arr/i
renderArrayItems(base, d) ==
    LET b == getValueAtPointer(base, ArrayPath)
        v == getValueAtPointer(d, ArrayPath)
        n == IF b.t = "a" THEN Len(b.v) ELSE 0
    IN [i \in 1..n |-> IF v.t = "a" /\ i <= Len(v.v) /\ v.v[i].t = "s"
                        THEN v.v[i].v[1] ELSE 0]

\* the keys a map can hold, as localeCompare sorts them
MapKeyOrder == <<"x", "y/z", "Z">>

\* renderMapObjectItemsFromData(base) followed by updateFormInputs(): one item per key
\* of the base map, sorted, each showing this.data at /m/key
renderMapItems(base, d) ==
    LET b == getValueAtPointer(base, MapPath)
        v == getValueAtPointer(d, MapPath)
        keys == IF b.t = "o" THEN SelectSeq(MapKeyOrder, LAMBDA k : HasKey(b.v, k)) ELSE <<>>
    IN [i \in 1..Len(keys) |->
           LET item == createMapItemFromTemplate(MapPath, keys[i])
               value == getValueAtPointer(d, item.path)
           IN [item EXCEPT !.val = IF value.t = "s" THEN value.v[1] ELSE 0]]

\* renderArrayObjectItemsFromData(base) followed by updateFormInputs() for /list: one
\* item per element of the base array, its n showing this.data at its path; the
\* .array-object elements of c were not there when the function listed the arrays
renderListItems(base, d) ==
    LET b == getValueAtPointer(base, ListPath)
        n == IF b.t = "a" THEN Len(b.v) ELSE 0
    IN [i \in 1..n |->
           LET item == createArrayItemFromTemplate(ListTemplate, ListPath, i - 1)
               value == getValueAtPointer(d, item.n.path)
           IN [item EXCEPT !.uid = 1 - i,
                           !.n.value = IF value.t = "s" THEN value.v[1] ELSE 0]]

\* updateFormInputs() for the controls of d.controls: one that has data-const or is
\* disabled keeps its text
updateFormInputsOf(d, dat) ==
    [d EXCEPT !.controls =
        [i \in 1..Len(d.controls) |->
            LET control == d.controls[i]
                value == getValueAtPointer(dat, control.path)
            IN IF control.const # Undef \/ control.disabled THEN control
               ELSE [control EXCEPT !.value = IF value.t = "s" THEN value.v[1] ELSE 0]]]

\* applyAnyOfObjectSelection(anyOfRoot): the controls of the variants other than the
\* selected one and the controls with data-const are disabled, the others enabled
applyAnyOfObjectSelection(d) ==
    [d EXCEPT !.controls =
        [i \in 1..Len(d.controls) |->
            LET control == d.controls[i]
            IN IF control.variant = NoVariant THEN control
               ELSE [control EXCEPT !.disabled = \/ control.variant # d.selector
                                                 \/ control.const # Undef]]]

\* the .anyof-variant elements whose data-anyof-discriminator-const is the value the
\* object has under the discriminator key, by data-anyof-index
MatchingVariants(d, value) ==
    { d.controls[i].variant : i \in { j \in 1..Len(d.controls) :
          /\ d.controls[j].variant # NoVariant
          /\ d.controls[j].path = AnyOfPath \o "/" \o DiscriminatorKey
          /\ d.controls[j].const = GetKey(value.v, DiscriminatorKey) } }

\* syncAnyOfObjectsFromData(data): the selector takes the first variant whose
\* discriminator the object at /u has, then applyAnyOfObjectSelection
syncAnyOfObjectsFromData(d, dat) ==
    LET value == getValueAtPointer(dat, AnyOfPath)
        matching == IF value.t = "o" THEN MatchingVariants(d, value) ELSE {}
    IN IF \A i \in 1..Len(d.controls) : d.controls[i].variant = NoVariant THEN d
       ELSE IF matching = {} THEN applyAnyOfObjectSelection(d)
       ELSE applyAnyOfObjectSelection(
                [d EXCEPT !.selector = CHOOSE k \in matching : \A h \in matching : k <= h])

\* renderArrayObjectItemsFromData(base) for the .array-object in the variant: its items
\* are replaced by one item per element of the base array, made from the template
renderInnerItems(d, base) ==
    LET b == getValueAtPointer(base, InnerArrayPath)
        n == IF b.t = "a" THEN Len(b.v) ELSE 0
        rest == SelectSeq(d.controls, LAMBDA control : ~IsInnerItem(control))
    IN IF InnerTemplates(d) = <<>> THEN d
       ELSE [d EXCEPT !.controls = rest \o
                [i \in 1..n |->
                    [InnerTemplates(d)[1] EXCEPT
                        !.path = InstantiatePath(@, InnerArrayPath, i - 1)]]]

\* renderArrayObjectItemsFromData(base), updateFormInputs(), syncAnyOfObjectsFromData(base)
\* on the rest of the page
renderDom(d, base, dat) ==
    syncAnyOfObjectsFromData(
        updateFormInputsOf(
            renderInnerItems([d EXCEPT !.list = renderListItems(base, dat)], base), dat),
        base)

\* the end of handleFormChange: the rebuilt document, if its text differs from that of
\* this.data, becomes this.data and is posted in an envelope stamped rev
postIfChanged(updated, rev, reason) ==
    IF Stringify(updated) # Stringify(data)
    THEN /\ data' = updated
         /\ syncRev' = syncRev + 1
         /\ lastSentRev' = syncRev + 1
         /\ lastSentJsonText' = Stringify(updated)
         /\ lastSentJsonTs' = 0
         /\ toOwner' = Append(toOwner, UpdateJsonMsg(Stringify(updated), rev, sessionId, reason))
    ELSE UNCHANGED <<data, syncRev, lastSentRev, lastSentJsonText, lastSentJsonTs, toOwner>>

\* handleFormChange stamping the envelope with the counter before its increment
handleFormChangeOldRev(newCtl, newItems, newMap, dps, dcs, reason, hintPath) ==
    /\ ctl' = newCtl
    /\ arrItems' = newItems
    /\ mapItems' = newMap
    /\ dirtyPaths' = dps
    /\ dirtyCollectionPaths' = dcs
    /\ postIfChanged(buildUpdatedJson(baseData, dps, dcs, newCtl, newItems, newMap, dom),
                     syncRev, reason)
    /\ nFormEdits' = nFormEdits + 1
    /\ formTouched' = formTouched \cup {hintPath}
    /\ lastLoad' = NoLoad
    /\ UNCHANGED <<baseData, hasForm, sessionId, lastAckRev, ownerVars, toForm,
                   nExtEdits, nRefused, nInjected, extChange, ackLog, dom, call, extVars>>

\* handleFormChange after the DOM and the dirty sets have been updated
handleFormChange(newCtl, newItems, newMap, dps, dcs, reason, hintPath) ==
    /\ ctl' = newCtl
    /\ arrItems' = newItems
    /\ mapItems' = newMap
    /\ dirtyPaths' = dps
    /\ dirtyCollectionPaths' = dcs
    /\ postIfChanged(buildUpdatedJson(baseData, dps, dcs, newCtl, newItems, newMap, dom),
                     syncRev + 1, reason)
    /\ nFormEdits' = nFormEdits + 1
    /\ formTouched' = formTouched \cup {hintPath}
    /\ lastLoad' = NoLoad
    /\ UNCHANGED <<baseData, hasForm, sessionId, lastAckRev, ownerVars, toForm,
                   nExtEdits, nRefused, nInjected, extChange, ackLog, dom, call, extVars>>

\* handleFormChange after an event on an element of the rest of the page
handleFormChangeDom(newDom, dps, dcs, reason, hintPath) ==
    /\ dom' = newDom
    /\ dirtyPaths' = dps
    /\ dirtyCollectionPaths' = dcs
    /\ postIfChanged(buildUpdatedJson(baseData, dps, dcs, ctl, arrItems, mapItems, newDom),
                     syncRev + 1, reason)
    /\ nFormEdits' = nFormEdits + 1
    /\ formTouched' = formTouched \cup {hintPath}
    /\ lastLoad' = NoLoad
    /\ UNCHANGED <<ctl, arrItems, mapItems, baseData, hasForm, sessionId, lastAckRev,
                   ownerVars, toForm, nExtEdits, nRefused, nInjected, extChange, ackLog,
                   call, extVars>>

\* the user edits controls the webview has painted: the markup is there, and the
\* loadJson the owner posted in the same turn as the loadSchema has been handled
CanEdit ==
    /\ hasForm
    /\ ~(toForm # <<>> /\ Head(toForm) = InitialJsonMsg(Head(toForm).json))

\* 'input' event on a leaf control
FormInput(path, v) ==
    /\ CanEdit
    /\ ctl[path] # v
    /\ handleFormChange([ctl EXCEPT ![path] = v], arrItems, mapItems,
                        markDirtyFromControl(dirtyPaths, baseData, path, v),
                        dirtyCollectionPaths, "input", path)

\* 'input' event on an item control of the array: its collection root gets dirty
FormArrayInput(i, v) ==
    /\ CanEdit
    /\ i \in 1..Len(arrItems)
    /\ arrItems[i] # v
    /\ handleFormChange(ctl, [arrItems EXCEPT ![i] = v], mapItems, dirtyPaths,
                        SetAdd(dirtyCollectionPaths, ArrayPath), "input", ArrayPath)

\* click on .array-add-button: addArrayItem, then handleFormChange
FormArrayAdd ==
    /\ CanEdit
    /\ handleFormChange(ctl, Append(arrItems, 0), mapItems, dirtyPaths,
                        SetAdd(dirtyCollectionPaths, ArrayPath), "array-add", ArrayPath)

\* click on .array-remove-button: removeArrayItem (re-indexes), then handleFormChange
FormArrayRemove(i) ==
    /\ CanEdit
    /\ i \in 1..Len(arrItems)
    /\ handleFormChange(ctl, SubSeq(arrItems, 1, i - 1) \o SubSeq(arrItems, i + 1, Len(arrItems)),
                        mapItems,
                        dirtyPaths, SetAdd(dirtyCollectionPaths, ArrayPath), "array-remove", ArrayPath)

\* the texts a user types into a map key input: none, a key that matches the pattern,
\* one that does not
MapKeyTexts == {"", "x", "y/z", "Z"}

\* click on .map-add-button: addMapItem appends an item without a key, then
\* handleFormChange
FormMapAdd ==
    /\ CanEdit
    /\ Len(mapItems) < MaxMapItems
    /\ handleFormChange(ctl, arrItems, Append(mapItems, createMapItemFromTemplate(MapPath, "")),
                        dirtyPaths, SetAdd(dirtyCollectionPaths, MapPath), "map-add", MapPath)

\* click on .map-remove-button: removeMapItem, then handleFormChange
FormMapRemove(i) ==
    /\ CanEdit
    /\ i \in 1..Len(mapItems)
    /\ handleFormChange(ctl, arrItems,
                        SubSeq(mapItems, 1, i - 1) \o SubSeq(mapItems, i + 1, Len(mapItems)),
                        dirtyPaths, SetAdd(dirtyCollectionPaths, MapPath), "map-remove", MapPath)

\* 'input' event on a map key input: rebindMapItem, validateMapObject, the collection
\* root gets dirty
FormMapKeyInput(i, k) ==
    /\ CanEdit
    /\ i \in 1..Len(mapItems)
    /\ mapItems[i].key # k
    /\ handleFormChange(ctl, arrItems,
                        [mapItems EXCEPT ![i] = rebindMapItem(MapPath, [@ EXCEPT !.key = k])],
                        dirtyPaths, SetAdd(dirtyCollectionPaths, MapPath), "input", MapPath)

\* 'input' event on the value control of a map item, which is enabled when the item
\* has a key
FormMapValueInput(i, v) ==
    /\ CanEdit
    /\ i \in 1..Len(mapItems)
    /\ mapItems[i].key # ""
    /\ mapItems[i].val # v
    /\ handleFormChange(ctl, arrItems, [mapItems EXCEPT ![i].val = v],
                        dirtyPaths, SetAdd(dirtyCollectionPaths, MapPath), "input", MapPath)

\* ---- events on the items of /list
\* the data-array-path attributes of the .array-add-button elements of the page
AddButtonPaths(litems) == {ListPath} \cup {litems[k].cPath : k \in 1..Len(litems)}

\* click on an .array-add-button of /list or of a c: addArrayItem, then handleFormChange
FormListAdd(arrayPath) ==
    /\ CanEdit
    /\ arrayPath \in AddButtonPaths(dom.list)
    /\ handleFormChangeDom([dom EXCEPT !.list = addArrayItem(dom.list, arrayPath, nFormEdits + 1)],
                           dirtyPaths, SetAdd(dirtyCollectionPaths, arrayPath),
                           "array-add", arrayPath)

\* the data-array-path of the .array-remove-button of an .array-item
RemoveButtonPath(litems, addr) ==
    IF addr[2] = 0 THEN litems[addr[1]].removePath
    ELSE litems[addr[1]].c[addr[2]].removePath

\* click on the .array-remove-button of an item: removeArrayItem, then handleFormChange
FormListRemove(addr) ==
    /\ CanEdit
    /\ \E e \in 1..Len(ListElements(dom.list, 1)) : ListElements(dom.list, 1)[e] = addr
    /\ handleFormChangeDom(
           [dom EXCEPT !.list = removeArrayItem(dom.list, RemoveButtonPath(dom.list, addr),
                                                addr)],
           dirtyPaths,
           SetAdd(dirtyCollectionPaths, RemoveButtonPath(dom.list, addr)),
           "array-remove", RemoveButtonPath(dom.list, addr))

\* 'input' event on the control of an item, n of an item of /list or the text of an
\* item of a c: markDirtyFromControl puts the data-array-path of the closest
\* .array-object into the Dirty Collection Set
FormListInput(addr, v) ==
    /\ CanEdit
    /\ \E e \in 1..Len(ListElements(dom.list, 1)) : ListElements(dom.list, 1)[e] = addr
    /\ IF addr[2] = 0
       THEN /\ dom.list[addr[1]].n.value # v
            /\ handleFormChangeDom([dom EXCEPT !.list[addr[1]].n.value = v],
                                   dirtyPaths, SetAdd(dirtyCollectionPaths, ListPath),
                                   "input", dom.list[addr[1]].n.path)
       ELSE /\ dom.list[addr[1]].c[addr[2]].v.value # v
            /\ handleFormChangeDom([dom EXCEPT !.list[addr[1]].c[addr[2]].v.value = v],
                                   dirtyPaths,
                                   SetAdd(dirtyCollectionPaths, dom.list[addr[1]].cPath),
                                   "input", dom.list[addr[1]].c[addr[2]].v.path)

\* ---- events on the other leaf controls
\* 'input' event on a control of d.controls that is enabled and in no hidden variant:
\* markDirtyFromControl, handleFormChange
FormDomInput(i, v) ==
    /\ CanEdit
    /\ i \in 1..Len(dom.controls)
    /\ ~dom.controls[i].disabled
    /\ dom.controls[i].const = Undef
    /\ IsActive(dom, dom.controls[i])
    /\ dom.controls[i].value # v
    /\ handleFormChangeDom([dom EXCEPT !.controls[i].value = v],
                           IF getCollectionRootForControl(dom.controls[i]) # "none"
                           THEN dirtyPaths
                           ELSE markDirtyFromControl(dirtyPaths, baseData,
                                                     dom.controls[i].path, v),
                           IF getCollectionRootForControl(dom.controls[i]) # "none"
                           THEN SetAdd(dirtyCollectionPaths,
                                       getCollectionRootForControl(dom.controls[i]))
                           ELSE dirtyCollectionPaths,
                           "input", dom.controls[i].path)

\* click on the .array-add-button of the .array-object in the variant: addArrayItem
\* appends an item made from the template, then handleFormChange
FormInnerAdd ==
    /\ CanEdit
    /\ InnerTemplates(dom) # <<>>
    /\ InnerTemplates(dom)[1].variant = dom.selector
    /\ handleFormChangeDom(
           [dom EXCEPT !.controls = @ \o
               <<[InnerTemplates(dom)[1] EXCEPT
                     !.path = InstantiatePath(@, InnerArrayPath, Len(InnerItems(dom)))]>>],
           dirtyPaths, SetAdd(dirtyCollectionPaths, InnerArrayPath), "array-add",
           InnerArrayPath)

\* the controls of that .array-object after removeArrayItem has removed item k and
\* reindexArrayItems has renumbered the others
RemoveInnerItem(d, k) ==
    LET rest == SelectSeq(d.controls, LAMBDA control : ~IsInnerItem(control))
        items == InnerItems(d)
        left == SubSeq(items, 1, k - 1) \o SubSeq(items, k + 1, Len(items))
    IN [d EXCEPT !.controls = rest \o
           [i \in 1..Len(left) |->
               [left[i] EXCEPT !.path = ReindexPath(@, InnerArrayPath, i - 1)]]]

\* click on the .array-remove-button of item k of the .array-object in the variant
FormInnerRemove(k) ==
    /\ CanEdit
    /\ k \in 1..Len(InnerItems(dom))
    /\ InnerItems(dom)[k].variant = dom.selector
    /\ handleFormChangeDom(RemoveInnerItem(dom, k), dirtyPaths,
                           SetAdd(dirtyCollectionPaths, InnerArrayPath), "array-remove",
                           InnerArrayPath)

\* the data-path of the controls under the .anyof-object, added to the set in document
\* order
RECURSIVE AddControlPaths(_, _)
AddControlPaths(dps, controls) ==
    IF controls = <<>> THEN dps
    ELSE AddControlPaths(IF Head(controls).variant = NoVariant THEN dps
                         ELSE SetAdd(dps, Head(controls).path),
                         Tail(controls))

\* 'change' event on the .anyof-selector, the user having picked variant idx:
\* handleAnyOfSelectorChange
FormSelectorChange(idx) ==
    /\ CanEdit
    /\ idx # dom.selector
    /\ \E i \in 1..Len(dom.controls) : dom.controls[i].variant = idx
    /\ handleFormChangeDom(applyAnyOfObjectSelection([dom EXCEPT !.selector = idx]),
                           AddControlPaths(dirtyPaths, dom.controls),
                           dirtyCollectionPaths, "anyof-change", AnyOfPath)

\* loadSchema(schema, settingsHtml): the markup is replaced and filled from the data
FormRecvLoadSchema ==
    /\ toForm # <<>>
    /\ Head(toForm).command = "loadSchema"
    /\ toForm' = Tail(toForm)
    /\ hasForm' = TRUE
    /\ ctl' = updateFormInputs(data)
    /\ arrItems' = renderArrayItems(baseData, data)
    /\ mapItems' = renderMapItems(baseData, data)
    /\ dom' = renderDom([dom EXCEPT !.controls = dom.html, !.selector = 0], baseData, data)
    /\ UNCHANGED <<data, baseData, dirtyPaths, dirtyCollectionPaths, sessionId, syncRev,
                   lastSentRev, lastAckRev, lastSentJsonText, lastSentJsonTs,
                   ownerVars, toOwner, nFormEdits, nExtEdits, nRefused, nInjected,
                   extChange, formTouched, ackLog, lastLoad, call, extVars>>

\* the echo guard without "Date.now() - this._lastSentJsonTs < 2500"
IsOwnEchoAnyTime(json) ==
    /\ lastSentJsonText # NoText
    /\ Parses(json)
    /\ Parses(lastSentJsonText)
    /\ deepEqualJson(Parse(json), Parse(lastSentJsonText))

\* the guard of handleMessage('loadJson') that takes a snapshot for the replica's own echo
IsOwnEcho(json) ==
    /\ lastSentJsonText # NoText
    /\ lastSentJsonTs < EchoWindowMs
    /\ Parses(json)
    /\ Parses(lastSentJsonText)
    /\ deepEqualJson(Parse(json), Parse(lastSentJsonText))

\* what handleMessage('loadJson') does with a snapshot: absorbed as the replica's own
\* echo, replaced from it, or left alone because JSON.parse threw; whether it had the
\* content of the last-sent text, with the keys in another order, and whether the echo
\* window had passed
LoadOutcome(json) ==
    [did |-> IF IsOwnEcho(json) THEN "absorbed"
             ELSE IF Parses(json) THEN "replaced" ELSE "unparsed",
     same |-> /\ lastSentJsonText # NoText
              /\ Parses(json)
              /\ (Parse(json) = NullDoc) = (Parse(lastSentJsonText) = NullDoc)
              /\ \A k \in Keys : GetKey(Parse(json), k) = GetKey(Parse(lastSentJsonText), k),
     reordered |-> Parses(json) /\ Parse(json) # Parse(lastSentJsonText),
     late |-> lastSentJsonTs >= EchoWindowMs]

\* updateData(json)
updateData(json) ==
    IF Parses(json)
    THEN /\ data' = Parse(json)
         /\ baseData' = cloneJson(Parse(json))
         /\ dirtyPaths' = <<>>
         /\ dirtyCollectionPaths' = <<>>
         /\ ctl' = IF hasForm THEN updateFormInputs(Parse(json)) ELSE ctl
         /\ arrItems' = IF hasForm THEN renderArrayItems(Parse(json), Parse(json)) ELSE arrItems
         /\ mapItems' = IF hasForm THEN renderMapItems(Parse(json), Parse(json)) ELSE mapItems
         /\ dom' = IF hasForm
                   THEN renderDom(dom, Parse(json), Parse(json))
                   ELSE dom
    ELSE UNCHANGED <<data, baseData, dirtyPaths, dirtyCollectionPaths, ctl, arrItems, mapItems,
                     dom>>

\* the 'loadJson' case if re-rendering from the snapshot wrote the document back
FormRecvLoadJsonResend ==
    /\ toForm # <<>>
    /\ Head(toForm).command = "loadJson"
    /\ toForm' = Tail(toForm)
    /\ IF IsOwnEcho(Head(toForm).json)
       THEN UNCHANGED <<data, baseData, dirtyPaths, dirtyCollectionPaths, ctl, arrItems, mapItems,
                        dom, syncRev, lastSentRev, lastSentJsonText, lastSentJsonTs, toOwner>>
       ELSE /\ updateData(Head(toForm).json)
            /\ syncRev' = syncRev + 1
            /\ lastSentRev' = syncRev + 1
            /\ lastSentJsonText' = Head(toForm).json
            /\ lastSentJsonTs' = 0
            /\ toOwner' = Append(toOwner,
                   UpdateJsonMsg(Head(toForm).json, syncRev + 1, sessionId, "render"))
    /\ UNCHANGED <<hasForm, sessionId, lastAckRev, ownerVars, nFormEdits, nExtEdits,
                   nRefused, nInjected, extChange, formTouched, ackLog, lastLoad, call, extVars>>

FormRecvLoadJson ==
    /\ toForm # <<>>
    /\ Head(toForm).command = "loadJson"
    /\ toForm' = Tail(toForm)
    /\ IF IsOwnEcho(Head(toForm).json)
       THEN UNCHANGED <<data, baseData, dirtyPaths, dirtyCollectionPaths, ctl, arrItems, mapItems,
                        dom>>
       ELSE updateData(Head(toForm).json)
    /\ lastLoad' = LoadOutcome(Head(toForm).json)
    /\ UNCHANGED <<hasForm, sessionId, syncRev, lastSentRev, lastAckRev, lastSentJsonText,
                   lastSentJsonTs, ownerVars, toOwner,
                   nFormEdits, nExtEdits, nRefused, nInjected, extChange, formTouched, ackLog,
                   call, extVars>>

\* handleUpdateJsonAck without the "rev !== this._lastSentRev" return
handleUpdateJsonAckAnyRev(meta) ==
    IF ~meta.ok THEN UNCHANGED <<lastAckRev, baseData, dirtyPaths, dirtyCollectionPaths>>
    ELSE IF meta.rev < lastAckRev
    THEN UNCHANGED <<lastAckRev, baseData, dirtyPaths, dirtyCollectionPaths>>
    ELSE /\ lastAckRev' = meta.rev
         /\ baseData' = cloneJson(data)
         /\ dirtyPaths' = <<>>
         /\ dirtyCollectionPaths' = <<>>

\* handleUpdateJsonAck that promotes the base but leaves the dirty sets as they are
handleUpdateJsonAckKeepDirty(meta) ==
    IF ~meta.ok THEN UNCHANGED <<lastAckRev, baseData, dirtyPaths, dirtyCollectionPaths>>
    ELSE IF meta.rev < lastAckRev
    THEN UNCHANGED <<lastAckRev, baseData, dirtyPaths, dirtyCollectionPaths>>
    ELSE /\ lastAckRev' = meta.rev
         /\ IF meta.rev # lastSentRev
            THEN UNCHANGED <<baseData, dirtyPaths, dirtyCollectionPaths>>
            ELSE /\ baseData' = cloneJson(data)
                 /\ UNCHANGED <<dirtyPaths, dirtyCollectionPaths>>

\* handleUpdateJsonAck without the "if (!ok) return"
handleUpdateJsonAckIgnoreOk(meta) ==
    IF meta.rev < lastAckRev
    THEN UNCHANGED <<lastAckRev, baseData, dirtyPaths, dirtyCollectionPaths>>
    ELSE /\ lastAckRev' = meta.rev
         /\ IF meta.rev # lastSentRev
            THEN UNCHANGED <<baseData, dirtyPaths, dirtyCollectionPaths>>
            ELSE /\ baseData' = cloneJson(data)
                 /\ dirtyPaths' = <<>>
                 /\ dirtyCollectionPaths' = <<>>

\* handleUpdateJsonAck(meta)
handleUpdateJsonAck(meta) ==
    IF ~meta.ok THEN UNCHANGED <<lastAckRev, baseData, dirtyPaths, dirtyCollectionPaths>>
    ELSE IF meta.rev < lastAckRev
    THEN UNCHANGED <<lastAckRev, baseData, dirtyPaths, dirtyCollectionPaths>>
    ELSE /\ lastAckRev' = meta.rev
         /\ IF meta.rev # lastSentRev
            THEN UNCHANGED <<baseData, dirtyPaths, dirtyCollectionPaths>>
            ELSE /\ baseData' = cloneJson(data)
                 /\ dirtyPaths' = <<>>
                 /\ dirtyCollectionPaths' = <<>>

FormRecvAck ==
    /\ toForm # <<>>
    /\ Head(toForm).command = "updateJsonAck"
    /\ toForm' = Tail(toForm)
    /\ handleUpdateJsonAck(Head(toForm))
    /\ ackLog' = IF Head(toForm).ok THEN Append(ackLog, Head(toForm).rev) ELSE ackLog
    /\ UNCHANGED <<data, ctl, arrItems, mapItems, hasForm, sessionId, syncRev, lastSentRev,
                   lastSentJsonText, lastSentJsonTs, ownerVars, toOwner,
                   nFormEdits, nExtEdits, nRefused, nInjected, extChange, formTouched,
                   lastLoad,
                   dom, call, extVars>>

\* showError(error): logged, no state of the replica changes
FormRecvShowError ==
    /\ toForm # <<>>
    /\ Head(toForm).command = "showError"
    /\ toForm' = Tail(toForm)
    /\ UNCHANGED <<formVars, ownerVars, toOwner, envVars>>

\* the change listener without clearTimeout(existing): a pending timer keeps its time
ChangeListenerKeepTimer(newText, sup, tmr) ==
    IF sup.set /\ sup.ts < SuppressWindowMs /\ newText = sup.json
    THEN <<NoSuppress, tmr>>
    ELSE <<sup, IF tmr.set THEN tmr ELSE [set |-> TRUE, elapsed |-> 0]>>

\* ---------------------------------------------------------- Document Owner
\* onDidChangeTextDocument listener, run with the text the change resulted in:
\* the change is either taken for the echo of the recorded write or it (re)arms the
\* debounce timer.  Yields the next <<suppress, syncTimer>>.
ChangeListener(newText, sup, tmr) ==
    IF sup.set /\ sup.ts < SuppressWindowMs /\ newText = sup.json
    THEN <<NoSuppress, tmr>>
    ELSE <<sup, [set |-> TRUE, elapsed |-> 0]>>

\* the stale guard with "rev < lastAppliedRev"
IsStaleStrict(m, la) ==
    /\ la.set
    /\ m.rev < la.rev
    /\ m.sessionId = la.sessionId

\* the stale guard without the sessionId comparison
IsStaleAnySession(m, la) ==
    /\ la.set
    /\ m.rev <= la.rev

\* the updateJson case without its stale guard
IsStaleNever(m, la) == FALSE

\* the stale guard of the updateJson case
IsStale(m, la) ==
    /\ la.set
    /\ m.rev <= la.rev
    /\ m.sessionId = la.sessionId

\* _updateJson without the unchanged-content return
IsNoChangeNever(m, t) == FALSE

\* currentText === json in _updateJson
IsNoChange(m, t) == t = m.json

\* case 'ready': reset lastAppliedRev for a new session, hand over the pending data
OwnerReady ==
    /\ ownerPc = "idle"
    /\ toOwner # <<>>
    /\ Head(toOwner).command = "ready"
    /\ toOwner' = Tail(toOwner)
    /\ lastApplied' = IF ~lastApplied.set \/ lastApplied.sessionId # Head(toOwner).sessionId
                      THEN [sessionId |-> Head(toOwner).sessionId, rev |-> 0, set |-> TRUE]
                      ELSE lastApplied
    /\ toForm' = IF pendingData # NoText
                 THEN toForm \o <<LoadSchemaMsg, InitialJsonMsg(pendingData)>>
                 ELSE toForm
    /\ pendingData' = NoText
    /\ snapshotSent' = IF pendingData # NoText THEN snapshotSent \cup {sessionId}
                       ELSE snapshotSent
    /\ UNCHANGED <<formVars, text, suppress, syncTimer, ownerPc, cur, isDirty, written,
                   nFormEdits, nExtEdits, nRefused, nInjected, extChange, formTouched, ackLog,
                   lastLoad, dom, call, schemaUrl, reload, appliedRev, reg>>

\* case 'updateJson' called from onDidReceiveMessage directly, not through the queue
OwnerUpdateJsonUnqueued ==
    /\ toOwner # <<>>
    /\ Head(toOwner).command = "updateJson"
    /\ toOwner' = Tail(toOwner)
    /\ LET m == Head(toOwner)
       IN IF IsStale(m, lastApplied)
          THEN /\ toForm' = Append(toForm, AckMsg(FALSE, m.rev, "stale-rev"))
               /\ UNCHANGED <<text, suppress, syncTimer, lastApplied, ownerPc, cur, written>>
          ELSE IF IsNoChange(m, text)
          THEN /\ toForm' = Append(toForm, AckMsg(TRUE, m.rev, "no-change"))
               /\ lastApplied' = [sessionId |-> m.sessionId, rev |-> m.rev, set |-> TRUE]
               /\ UNCHANGED <<text, suppress, syncTimer, ownerPc, cur, written>>
          ELSE /\ suppress' = [json |-> m.json, ts |-> 0, set |-> TRUE]
               /\ written' = [json |-> m.json, ts |-> 0, set |-> TRUE]
               /\ ownerPc' = "applyEdit"
               /\ cur' = m
               /\ UNCHANGED <<text, syncTimer, lastApplied, toForm>>
    /\ UNCHANGED <<formVars, pendingData, isDirty, envVars>>

\* case 'updateJson' up to the first await of _updateJson: stale guard, unchanged
\* content, or the echo record is armed and the edit is requested
OwnerUpdateJson ==
    /\ ownerPc = "idle"
    /\ toOwner # <<>>
    /\ Head(toOwner).command = "updateJson"
    /\ toOwner' = Tail(toOwner)
    /\ LET m == Head(toOwner)
       IN IF IsStale(m, lastApplied)
          THEN /\ toForm' = Append(toForm, AckMsg(FALSE, m.rev, "stale-rev"))
               /\ UNCHANGED <<text, suppress, syncTimer, lastApplied, ownerPc, cur, written>>
          ELSE IF IsNoChange(m, text)
          THEN /\ toForm' = Append(toForm, AckMsg(TRUE, m.rev, "no-change"))
               /\ lastApplied' = [sessionId |-> m.sessionId, rev |-> m.rev, set |-> TRUE]
               /\ UNCHANGED <<text, suppress, syncTimer, ownerPc, cur, written>>
          ELSE /\ suppress' = [json |-> m.json, ts |-> 0, set |-> TRUE]
               /\ written' = [json |-> m.json, ts |-> 0, set |-> TRUE]
               /\ ownerPc' = "applyEdit"
               /\ cur' = m
               /\ UNCHANGED <<text, syncTimer, lastApplied, toForm>>
    /\ UNCHANGED <<formVars, pendingData, isDirty, envVars>>

\* workspace.applyEdit replaced the whole text; the change listener runs on it
OwnerApplyEdit ==
    /\ ownerPc = "applyEdit"
    /\ text' = cur.json
    /\ suppress' = ChangeListener(cur.json, suppress, syncTimer)[1]
    /\ syncTimer' = ChangeListener(cur.json, suppress, syncTimer)[2]
    /\ isDirty' = TRUE
    /\ ownerPc' = "ack"
    /\ appliedRev' = [appliedRev EXCEPT ![cur.sessionId] = IF cur.rev > @ THEN cur.rev ELSE @]
    /\ UNCHANGED <<formVars, lastApplied, pendingData, cur, written, toOwner, toForm,
                   nFormEdits, nExtEdits, nRefused, nInjected, extChange, formTouched, ackLog,
                   lastLoad, dom, call, schemaUrl, reload, reg, snapshotSent>>

\* workspace.applyEdit returned false and the record of the write is left in place
OwnerEditRefusedKeepRecord ==
    /\ ownerPc = "applyEdit"
    /\ nRefused < MaxRefused
    /\ nRefused' = nRefused + 1
    /\ suppress' = suppress
    /\ toForm' = Append(toForm, AckMsg(FALSE, cur.rev, "applyEdit-false"))
    /\ ownerPc' = "idle"
    /\ cur' = NoMsg
    /\ written' = NoSuppress
    /\ UNCHANGED <<formVars, text, syncTimer, lastApplied, pendingData, isDirty, toOwner,
                   nFormEdits, nExtEdits, nInjected, extChange, formTouched, ackLog, lastLoad,
                   dom, call, extVars>>

\* workspace.applyEdit returned false: the record is dropped, the write is refused
OwnerEditRefused ==
    /\ ownerPc = "applyEdit"
    /\ nRefused < MaxRefused
    /\ nRefused' = nRefused + 1
    /\ suppress' = NoSuppress
    /\ toForm' = Append(toForm, AckMsg(FALSE, cur.rev, "applyEdit-false"))
    /\ ownerPc' = "idle"
    /\ cur' = NoMsg
    /\ written' = NoSuppress
    /\ UNCHANGED <<formVars, text, syncTimer, lastApplied, pendingData, isDirty, toOwner,
                   nFormEdits, nExtEdits, nInjected, extChange, formTouched, ackLog, lastLoad,
                   dom, call, extVars>>

\* the catch of _updateJson that posts nothing
OwnerWriteExceptionSilent ==
    /\ ownerPc = "applyEdit"
    /\ nRefused < MaxRefused
    /\ nRefused' = nRefused + 1
    /\ ownerPc' = "idle"
    /\ cur' = NoMsg
    /\ written' = NoSuppress
    /\ UNCHANGED <<formVars, text, suppress, syncTimer, lastApplied, pendingData, isDirty,
                   toOwner, toForm,
                   nFormEdits, nExtEdits, nInjected, extChange, formTouched, ackLog, lastLoad,
                   dom, call, extVars>>

\* workspace.applyEdit threw: the catch of _updateJson refuses the write with reason
\* 'exception'; the record of the write stays where it was put
OwnerWriteException ==
    /\ ownerPc = "applyEdit"
    /\ nRefused < MaxRefused
    /\ nRefused' = nRefused + 1
    /\ toForm' = Append(toForm, AckMsg(FALSE, cur.rev, "exception"))
    /\ ownerPc' = "idle"
    /\ cur' = NoMsg
    /\ written' = NoSuppress
    /\ UNCHANGED <<formVars, text, suppress, syncTimer, lastApplied, pendingData, isDirty,
                   toOwner,
                   nFormEdits, nExtEdits, nInjected, extChange, formTouched, ackLog, lastLoad,
                   dom, call, extVars>>

\* case 'updateJson' when openTextDocument(sourceUri) failed: no bound document
OwnerNoDocument ==
    /\ ownerPc = "idle"
    /\ toOwner # <<>>
    /\ Head(toOwner).command = "updateJson"
    /\ nRefused < MaxRefused
    /\ nRefused' = nRefused + 1
    /\ toOwner' = Tail(toOwner)
    /\ toForm' = Append(toForm, AckMsg(FALSE, Head(toOwner).rev, "no-bound-document"))
    /\ UNCHANGED <<formVars, text, suppress, syncTimer, lastApplied, pendingData, ownerPc, cur,
                   isDirty, written,
                   nFormEdits, nExtEdits, nInjected, extChange, formTouched, ackLog, lastLoad,
                   dom, call, extVars>>

\* case 'updateJson' when the write is not stale and sourceDocument.isClosed
OwnerDocumentClosed ==
    /\ ownerPc = "idle"
    /\ toOwner # <<>>
    /\ Head(toOwner).command = "updateJson"
    /\ ~IsStale(Head(toOwner), lastApplied)
    /\ nRefused < MaxRefused
    /\ nRefused' = nRefused + 1
    /\ toOwner' = Tail(toOwner)
    /\ toForm' = Append(toForm, AckMsg(FALSE, Head(toOwner).rev, "document-closed"))
    /\ UNCHANGED <<formVars, text, suppress, syncTimer, lastApplied, pendingData, ownerPc, cur,
                   isDirty, written,
                   nFormEdits, nExtEdits, nInjected, extChange, formTouched, ackLog, lastLoad,
                   dom, call, extVars>>

\* _updateJson after the edit: acknowledge; the caller records the applied revision
OwnerAck ==
    /\ ownerPc = "ack"
    /\ toForm' = Append(toForm, AckMsg(TRUE, cur.rev, ""))
    /\ lastApplied' = [sessionId |-> cur.sessionId, rev |-> cur.rev, set |-> TRUE]
    /\ ownerPc' = "idle"
    /\ cur' = NoMsg
    /\ UNCHANGED <<formVars, text, suppress, syncTimer, pendingData, isDirty, written,
                   toOwner, envVars>>

\* the debounce timer's callback without the catch around the parse: the text is
\* forwarded as it stands
TimerFireUnparsed ==
    /\ syncTimer.set
    /\ syncTimer.elapsed >= DebounceMs
    /\ syncTimer' = NoTimer
    /\ toForm' = Append(toForm, LoadJsonMsg(IF Parses(text) THEN Stringify(Parse(text))
                                            ELSE text))
    /\ snapshotSent' = snapshotSent \cup {sessionId}
    /\ UNCHANGED <<formVars, text, suppress, lastApplied, pendingData, ownerPc, cur,
                   isDirty, written, toOwner, nFormEdits, nExtEdits, nRefused, nInjected,
                   extChange, formTouched, ackLog, lastLoad, dom, call, schemaUrl, reload,
                   appliedRev, reg>>

\* typeof jsonData?.$schema === 'string' ? jsonData.$schema : undefined
nextSchemaUrlOf(jsonData) ==
    IF jsonData = NullDoc THEN NoUrl
    ELSE IF GetKey(jsonData, SchemaKey).t = "s" /\ GetKey(jsonData, SchemaKey).v[1] \in SchemaUrls
    THEN GetKey(jsonData, SchemaKey).v[1]
    ELSE NoUrl

\* the comparison of the callback left out: no snapshot reloads the schema
SchemaChangedNever(jsonData, prevSchemaUrl) == FALSE

\* nextSchemaUrl && nextSchemaUrl !== prevSchemaUrl
SchemaChanged(jsonData, prevSchemaUrl) ==
    /\ nextSchemaUrlOf(jsonData) # NoUrl
    /\ nextSchemaUrlOf(jsonData) # prevSchemaUrl

\* the debounce timer's callback, up to its end or to the await of _loadSchema: the
\* text is parsed; a snapshot with another $schema has the URL recorded and waits for
\* the schema, any other is posted
TimerFire ==
    /\ syncTimer.set
    /\ syncTimer.elapsed >= DebounceMs
    /\ syncTimer' = NoTimer
    /\ IF ~Parses(text)
       THEN /\ toForm' = Append(toForm, ShowErrorMsg)
            /\ UNCHANGED <<schemaUrl, reload, snapshotSent>>
       ELSE IF SchemaChanged(Parse(text), schemaUrl)
       THEN /\ schemaUrl' = nextSchemaUrlOf(Parse(text))
            /\ reload' = Append(reload, [url |-> nextSchemaUrlOf(Parse(text)),
                                         json |-> Stringify(Parse(text))])
            /\ toForm' = toForm
            /\ snapshotSent' = snapshotSent
       ELSE /\ toForm' = Append(toForm, LoadJsonMsg(Stringify(Parse(text))))
            /\ snapshotSent' = snapshotSent \cup {sessionId}
            /\ UNCHANGED <<schemaUrl, reload>>
    /\ UNCHANGED <<formVars, text, suppress, lastApplied, pendingData, ownerPc, cur,
                   isDirty, written, toOwner, nFormEdits, nExtEdits, nRefused, nInjected,
                   extChange, formTouched, ackLog, lastLoad, dom, call, appliedRev, reg>>

\* _loadSchema(webview, schemaUrl) settles, for the i-th callback that awaits one, and
\* the callback goes on: loadSchema, or showError when the schema could not be loaded,
\* then the loadJson of the snapshot the callback parsed
SchemaLoaded(i, loaded) ==
    /\ i \in 1..Len(reload)
    /\ toForm' = toForm \o <<IF loaded THEN LoadSchemaMsg ELSE ShowErrorMsg,
                              LoadJsonMsg(reload[i].json)>>
    /\ reload' = SubSeq(reload, 1, i - 1) \o SubSeq(reload, i + 1, Len(reload))
    /\ snapshotSent' = snapshotSent \cup {sessionId}
    /\ UNCHANGED <<formVars, ownerVars, toOwner, nFormEdits, nExtEdits, nRefused, nInjected,
                   extChange, formTouched, ackLog, lastLoad, dom, call, schemaUrl,
                   appliedRev, reg>>

\* the auto-save timer of _scheduleAutoSave (or the user) saves the document: the
\* dirty state changes and the change listener runs on the unchanged text
DocumentSaved ==
    /\ ownerPc # "applyEdit"
    /\ isDirty
    /\ isDirty' = FALSE
    /\ suppress' = ChangeListener(text, suppress, syncTimer)[1]
    /\ syncTimer' = ChangeListener(text, suppress, syncTimer)[2]
    /\ UNCHANGED <<formVars, text, lastApplied, pendingData, ownerPc, cur, written,
                   toOwner, toForm, envVars>>

\* ------------------------------------------------------------- environment
\* the texts one external edit of the text surface can produce
ExternalTexts(t) ==
    ( { [t EXCEPT !.obj = SetKey(t.obj, k, Scalar(n))] : k \in {"b"}, n \in Scalars }
      \cup { [t EXCEPT !.obj = DelKey(t.obj, k)] : k \in {"b"} }
      \cup { [t EXCEPT !.ok = ~t.ok] }
      \cup { [t EXCEPT !.fmt = IF t.fmt = "pretty" THEN "typed" ELSE "pretty"] } )
    \ {t}

\* an edit of the text surface from outside; the change listener runs on the result
ExternalEdit(newText) ==
    /\ ownerPc # "applyEdit"
    /\ nExtEdits' = nExtEdits + 1
    /\ extChange' = { c \in extChange : GetKey(newText.obj, c[1]) = GetKey(text.obj, c[1]) }
                     \cup { <<k, GetKey(newText.obj, k)>> :
                                k \in { j \in Keys : GetKey(newText.obj, j) # GetKey(text.obj, j) } }
    /\ text' = newText
    /\ isDirty' = TRUE
    /\ suppress' = ChangeListener(newText, suppress, syncTimer)[1]
    /\ syncTimer' = ChangeListener(newText, suppress, syncTimer)[2]
    /\ UNCHANGED <<formVars, lastApplied, pendingData, ownerPc, cur, written, toOwner, toForm,
                   nFormEdits, nRefused, nInjected, formTouched, ackLog, lastLoad,
                   dom, call, extVars>>

\* the texts an external edit of $schema alone can produce: another URL, the URL the
\* binding was opened with, a value that is not a string, no $schema
SchemaTexts(t) ==
    ( { [t EXCEPT !.obj = SetKey(t.obj, SchemaKey, Scalar(u))] : u \in SchemaUrls }
      \cup { [t EXCEPT !.obj = SetKey(t.obj, SchemaKey, Null)] }
      \cup { [t EXCEPT !.obj = DelKey(t.obj, SchemaKey)] } )
    \ {t}

\* an acknowledgment reaches the form out of order or twice: any revision already sent
InjectAck(ok, rev) ==
    /\ rev \in 1..lastSentRev
    /\ nInjected' = nInjected + 1
    /\ toForm' = Append(toForm, AckMsg(ok, rev, IF ok THEN "" ELSE "stale-rev"))
    /\ UNCHANGED <<formVars, ownerVars, toOwner,
                   nFormEdits, nExtEdits, nRefused, extChange, formTouched, ackLog, lastLoad,
                   dom, call, extVars>>

\* the texts an injected write can carry
InjectedTexts ==
    { Stringify(EmptyObj), Stringify(<<[k |-> "a", v |-> Scalar(1)]>>) }

\* a write envelope of any session and revision reaches the owner's queue
InjectUpdateJson(json, rev, sid) ==
    /\ nInjected' = nInjected + 1
    /\ toOwner' = Append(toOwner, UpdateJsonMsg(json, rev, sid, "input"))
    /\ UNCHANGED <<formVars, ownerVars, toForm,
                   nFormEdits, nExtEdits, nRefused, extChange, formTouched, ackLog, lastLoad,
                   dom, call, extVars>>

\* a ready of any session reaches the owner's queue (the webview was reloaded)
InjectReady(sid) ==
    /\ nInjected' = nInjected + 1
    /\ toOwner' = Append(toOwner, ReadyMsg(sid))
    /\ UNCHANGED <<formVars, ownerVars, toForm,
                   nFormEdits, nExtEdits, nRefused, extChange, formTouched, ackLog, lastLoad,
                   dom, call, extVars>>

\* the keys of an object in the opposite order
ReverseKeys(obj) == [i \in 1..Len(obj) |-> obj[Len(obj) + 1 - i]]

\* a text JSON.parse throws on
GarbledText == [ok |-> FALSE, fmt |-> "typed", obj |-> EmptyObj]

\* the snapshots a loadJson can carry: any document, the text "null", the content last
\* sent with its keys in either order, and a text that does not parse
LoadTexts ==
    InjectedTexts
    \cup {GarbledText, Stringify(NullDoc)}
    \cup (IF lastSentJsonText = NoText THEN {}
          ELSE {lastSentJsonText, Stringify(ReverseKeys(Parse(lastSentJsonText)))})

\* a snapshot reaches the form at any moment
InjectLoadJson(json) ==
    /\ hasForm
    /\ nInjected' = nInjected + 1
    /\ toForm' = Append(toForm, LoadJsonMsg(json))
    /\ UNCHANGED <<formVars, ownerVars, toOwner,
                   nFormEdits, nExtEdits, nRefused, extChange, formTouched, ackLog, lastLoad,
                   dom, call, extVars>>

\* ---------------------------------------------------- calls of one function
\* the roots a pointer is applied to: nothing, a scalar, an object, null and arrays of
\* scalars and of objects under a key
PointerRoots ==
    { EmptyObj,
      <<[k |-> "a", v |-> Scalar(1)]>>,
      <<[k |-> "a", v |-> ObjectOf(<<[k |-> "b", v |-> Scalar(1)]>>)]>>,
      <<[k |-> "a", v |-> Null]>>,
      <<[k |-> "r", v |-> ArrayOf(<<Scalar(1)>>)]>>,
      <<[k |-> "r", v |-> ArrayOf(<<Scalar(1), Scalar(2), Scalar(3)>>)],
        [k |-> "a", v |-> Scalar(1)]>>,
      <<[k |-> "r", v |-> ArrayOf(<<ObjectOf(<<[k |-> "b", v |-> Scalar(1)]>>)>>)],
        [k |-> "a", v |-> Scalar(1)]>> }

\* the pointers applied: empty ones, keys, indices, an index written with a leading
\* zero, and paths through nodes that are missing
Pointers ==
    { "", "/", "/a", "/a/b", "/r/0", "/r/01", "/r/2", "/r/0/b", "/x/y", "/x/0", "/x/0/y" }

PointerValues == { Scalar(2), ObjectOf(EmptyObj) }

PointerCalls ==
    { [NoCall EXCEPT !.root = r, !.pointer = p, !.value = v] :
          r \in PointerRoots, p \in Pointers, v \in PointerValues }

\* setValueAtPointer(call.root, call.pointer, call.value) is called
CallSetValueAtPointer ==
    /\ call.fn = "none"
    /\ call' = [call EXCEPT
                   !.fn = "setValueAtPointer",
                   !.out = ObjectOf(setValueAtPointer(call.root, call.pointer, call.value)),
                   !.threw = /\ parsePointer(call.pointer) # <<>>
                             /\ SetThrows(ObjectOf(call.root), parsePointer(call.pointer))]
    /\ UNCHANGED <<bindingVars, dom>>

\* getValueAtPointer(call.root, call.pointer) is called
CallGetValueAtPointer ==
    /\ call.fn = "none"
    /\ call' = [call EXCEPT !.fn = "getValueAtPointer",
                            !.out = getValueAtPointer(call.root, call.pointer)]
    /\ UNCHANGED <<bindingVars, dom>>

\* deleteValueAtPointer(call.root, call.pointer) is called
CallDeleteValueAtPointer ==
    /\ call.fn = "none"
    /\ call' = [call EXCEPT !.fn = "deleteValueAtPointer",
                            !.out = ObjectOf(deleteValueAtPointer(call.root, call.pointer))]
    /\ UNCHANGED <<bindingVars, dom>>

\* time passes: every elapsed time that is still below its window grows
TickEnabled ==
    \/ lastSentJsonText # NoText /\ lastSentJsonTs < EchoWindowMs
    \/ suppress.set /\ suppress.ts < SuppressWindowMs
    \/ syncTimer.set /\ syncTimer.elapsed < DebounceMs
    \/ written.set

Tick ==
    /\ TickEnabled
    /\ lastSentJsonTs' = IF lastSentJsonText # NoText
                         THEN Min(lastSentJsonTs + TickMs, EchoWindowMs)
                         ELSE lastSentJsonTs
    /\ suppress' = IF suppress.set
                   THEN [suppress EXCEPT !.ts = Min(@ + TickMs, SuppressWindowMs)]
                   ELSE suppress
    /\ syncTimer' = IF syncTimer.set
                    THEN [syncTimer EXCEPT !.elapsed = Min(@ + TickMs, DebounceMs)]
                    ELSE syncTimer
    /\ written' = IF written.set /\ written.ts + TickMs < SuppressWindowMs
                  THEN [written EXCEPT !.ts = @ + TickMs]
                  ELSE NoSuppress
    /\ UNCHANGED <<data, baseData, dirtyPaths, dirtyCollectionPaths, ctl, arrItems, mapItems,
                   hasForm,                   sessionId, syncRev, lastSentRev, lastAckRev, lastSentJsonText,
                   text, lastApplied, pendingData, ownerPc, cur, isDirty, toOwner, toForm,
                   envVars>>

\* ---------------------------------------------------------- specifications
FormEdit ==
    \/ \E p \in LeafPaths, v \in {0} \cup Scalars : FormInput(p, v)
    \/ \E i \in 1..Len(arrItems), v \in {0} \cup Scalars : FormArrayInput(i, v)
    \/ FormArrayAdd
    \/ \E i \in 1..Len(arrItems) : FormArrayRemove(i)

FormRecv == FormRecvLoadSchema \/ FormRecvLoadJson \/ FormRecvAck \/ FormRecvShowError

OwnerStep == OwnerReady \/ OwnerUpdateJson \/ OwnerApplyEdit \/ OwnerAck

External == \E t \in ExternalTexts(text) : ExternalEdit(t)

System == FormRecv \/ OwnerStep \/ TimerFire \/ DocumentSaved \/ Tick

\* the same where the text surface always parses: no showError is ever posted
FormRecvParsed == FormRecvLoadSchema \/ FormRecvLoadJson \/ FormRecvAck

SystemParsed == FormRecvParsed \/ OwnerStep \/ TimerFire \/ DocumentSaved \/ Tick

\* the whole binding: form edits and external edits, MaxEdits of them in all
Next ==
    \/ nFormEdits + nExtEdits < MaxEdits /\ FormEdit
    \/ nFormEdits + nExtEdits < MaxEdits /\ External
    \/ System

Spec == Init /\ [][Next]_vars

\* the webview's event loop hands the message at the head of its queue to handleMessage:
\* the steps that remove it are the steps of FormRecv, which has a case for every
\* command and so is enabled whenever the queue is not empty
FormDeliver == toForm # <<>> /\ toForm' = Tail(toForm)

\* the same, with every handler, timer and clock eventually taking its turn
SpecFair ==
    /\ Spec
    /\ WF_toForm(FormDeliver)
    /\ WF_vars(OwnerStep)
    /\ WF_vars(TimerFire)
    /\ WF_vars(DocumentSaved)
    /\ WF_vars(Tick)

\* external edits that leave the text surface parseable
ExternalParsed == \E t \in {x \in ExternalTexts(text) : Parses(x)} : ExternalEdit(t)

NextParsed ==
    \/ nFormEdits + nExtEdits < MaxEdits /\ FormEdit
    \/ nFormEdits + nExtEdits < MaxEdits /\ ExternalParsed
    \/ SystemParsed

SpecParsed == Init /\ [][NextParsed]_vars

\* no external edit of the text surface
NextForm ==
    \/ nFormEdits < MaxFormEdits /\ FormEdit
    \/ SystemParsed

SpecForm == Init /\ [][NextForm]_vars

\* the Form Replica alone after the handshake: its writes are answered by
\* acknowledgments of any sent revision, in any order
NextAck ==
    \/ nFormEdits < MaxFormEdits /\ FormEdit
    \/ nInjected < MaxInjected /\ \E ok \in BOOLEAN, rev \in 1..MaxFormEdits : InjectAck(ok, rev)
    \/ OwnerReady
    \/ FormRecvParsed
    \/ Tick

SpecAck == Init /\ [][NextAck]_vars

\* the form over a document with a map: edits of the map's items and of the leaves
\* beside it, the owner applying and acknowledging the writes
FormMapEdit ==
    \/ FormMapAdd
    \/ \E i \in 1..Len(mapItems) : FormMapRemove(i)
    \/ \E i \in 1..Len(mapItems), k \in MapKeyTexts : FormMapKeyInput(i, k)
    \/ \E i \in 1..Len(mapItems), v \in {0, BadInput} \cup Scalars : FormMapValueInput(i, v)

FormLeafEdit == \E p \in LeafPaths, v \in {0} \cup Scalars : FormInput(p, v)

NextMap ==
    \/ nFormEdits < MaxFormEdits /\ FormMapEdit
    \/ nFormEdits < MaxFormEdits /\ FormLeafEdit
    \/ OwnerStep
    \/ FormRecvParsed

SpecMap == InitMap /\ [][NextMap]_vars

\* the whole binding where the text is edited from outside more often than on the form
NextUndo ==
    \/ nFormEdits < MaxUndoFormEdits /\ FormLeafEdit
    \/ nExtEdits < MaxUndoExtEdits /\ External
    \/ System

SpecUndo == Init /\ [][NextUndo]_vars

\* ------------------------------------------------- the provider's registry
\* everything but the provider's maps
bindingState == <<formVars, ownerVars, toOwner, toForm, nFormEdits, nExtEdits, nRefused,
                  nInjected, extChange, formTouched, ackLog, lastLoad, dom, call, schemaUrl,
                  reload, appliedRev, snapshotSent>>

\* the maps keyed by panelId
KeyedMaps == {"pendingDataMap", "panelSchemaUrlMap", "suppressNextDocToWebviewSync",
              "docToWebviewSyncTimers", "messageQueueMap", "lastAppliedRevMap"}

\* moveKey(map, fromKey, toKey)
moveKey(map, fromKey, toKey) ==
    IF fromKey \notin map THEN map ELSE (map \ {fromKey}) \cup {toKey}

\* the panels that exist and are not disposed
LivePanels(r) == (1..r.created) \ r.disposed

\* openEditor(schemaUrl, sourceDocument) with a new panel: the panel is created and
\* registered under the document's URI, its dispose handler closes over that panelId
openEditorNew(r, d, hasSchema) ==
    LET panelId == r.uri[d]
        newPanel == r.created + 1
    IN [r EXCEPT !.created = newPanel,
                 !.webviewPanelMap[panelId] = newPanel,
                 !.panelToIdMap[newPanel] = panelId,
                 !.sourceUriMap[newPanel] = panelId,
                 !.closureId[newPanel] = panelId,
                 !.keysOf[newPanel] = {panelId},
                 !.panelByDocument[d] = newPanel,
                 !.pendingDataMap = @ \cup {panelId},
                 !.panelSchemaUrlMap = IF hasSchema THEN @ \cup {panelId} ELSE @]

\* openEditor with the panel found under the document's URI: the binding is refreshed;
\* setting the title of a disposed panel throws, which ends the call there
openEditorReuse(r, d, hasSchema) ==
    LET panelId == r.uri[d]
        panel == r.webviewPanelMap[panelId]
        bound == [r EXCEPT !.sourceUriMap[panel] = panelId]
    IN IF panel \in r.disposed THEN bound
       ELSE [bound EXCEPT !.panelByDocument[d] = panel,
                          !.panelSchemaUrlMap = IF hasSchema THEN @ \cup {panelId} ELSE @]

\* openEditor for document d, whose text holds a $schema or not
OpenEditor(d, hasSchema) ==
    /\ IF reg.webviewPanelMap[reg.uri[d]] = NoPanel
       THEN /\ reg.created < MaxPanels
            /\ reg' = openEditorNew(reg, d, hasSchema)
       ELSE reg' = openEditorReuse(reg, d, hasSchema)
    /\ UNCHANGED bindingState

\* the onDidSaveTextDocument listener for a document whose URI is now newPanelId
rebind(r, d) ==
    LET panel == r.panelByDocument[d]
        oldPanelId == IF panel = NoPanel THEN NoKey ELSE r.panelToIdMap[panel]
        newPanelId == r.uri[d]
        existing == r.webviewPanelMap[newPanelId]
    IN IF panel = NoPanel \/ oldPanelId = NoKey \/ oldPanelId = newPanelId THEN r
       ELSE IF existing # NoPanel /\ existing # panel THEN r
       ELSE [r EXCEPT !.webviewPanelMap =
                          [@ EXCEPT ![oldPanelId] = NoPanel, ![newPanelId] = panel],
                      !.panelToIdMap[panel] = newPanelId,
                      !.keysOf[panel] = @ \cup {newPanelId},
                      !.pendingDataMap = moveKey(@, oldPanelId, newPanelId),
                      !.messageQueueMap = moveKey(@, oldPanelId, newPanelId),
                      !.lastAppliedRevMap = moveKey(@, oldPanelId, newPanelId),
                      !.panelSchemaUrlMap = moveKey(@, oldPanelId, newPanelId),
                      !.docToWebviewSyncTimers = moveKey(@, oldPanelId, newPanelId),
                      !.suppressNextDocToWebviewSync = moveKey(@, oldPanelId, newPanelId),
                      !.sourceUriMap[panel] = newPanelId]

\* Save As: document d is saved under a file URI no open document has, and the
\* listener runs
DocumentSavedAs(d, u) ==
    /\ reg.saves < MaxSaves
    /\ u \in FileUris
    /\ \A other \in Docs : reg.uri[other] # u
    /\ reg' = rebind([reg EXCEPT !.uri[d] = u, !.saves = @ + 1], d)
    /\ UNCHANGED bindingState

\* the dispose handler of newPanel, with the panelId of its closure
onDidDispose(r, newPanel) ==
    LET panelId == r.closureId[newPanel]
    IN [r EXCEPT !.webviewPanelMap[panelId] = NoPanel,
                 !.panelToIdMap[newPanel] = NoKey,
                 !.pendingDataMap = @ \ {panelId},
                 !.sourceUriMap[newPanel] = NoKey,
                 !.panelSchemaUrlMap = @ \ {panelId},
                 !.suppressNextDocToWebviewSync = @ \ {panelId},
                 !.docToWebviewSyncTimers = @ \ {panelId},
                 !.messageQueueMap = @ \ {panelId},
                 !.lastAppliedRevMap = @ \ {panelId}]

\* the dispose handler that looks the panelId up when it runs
onDidDisposeCurrentId(r, newPanel) ==
    onDidDispose([r EXCEPT !.closureId[newPanel] = r.panelToIdMap[newPanel]], newPanel)

\* the user closes a panel no handler of which is waiting for an edit
PanelDispose(p) ==
    /\ p \in LivePanels(reg)
    /\ reg.handling[p] = NoKey
    /\ reg' = [onDidDispose(reg, p) EXCEPT !.disposed = @ \cup {p}]
    /\ UNCHANGED bindingState

\* the webview of a panel posts ready: the message is queued under the panel's id, the
\* revision record is reset for the session and the pending data handed over
PanelReady(p) ==
    /\ p \in LivePanels(reg)
    /\ reg.handling[p] = NoKey
    /\ LET panelId == reg.panelToIdMap[p]
       IN reg' = [reg EXCEPT !.messageQueueMap = @ \cup {panelId},
                             !.lastAppliedRevMap = @ \cup {panelId},
                             !.pendingDataMap = @ \ {panelId}]
    /\ UNCHANGED bindingState

\* the webview posts updateJson: queued, the echo record is set under the panelId the
\* handler read and the edit is requested
PanelWriteStart(p) ==
    /\ p \in LivePanels(reg)
    /\ reg.handling[p] = NoKey
    /\ LET panelId == reg.panelToIdMap[p]
       IN reg' = [reg EXCEPT !.messageQueueMap = @ \cup {panelId},
                             !.suppressNextDocToWebviewSync = @ \cup {panelId},
                             !.handling[p] = panelId]
    /\ UNCHANGED bindingState

\* the edit is applied and the handler records the revision under its panelId
PanelWriteEnd(p) ==
    /\ reg.handling[p] # NoKey
    /\ reg' = [reg EXCEPT !.lastAppliedRevMap = @ \cup {reg.handling[p]},
                          !.handling[p] = NoKey]
    /\ UNCHANGED bindingState

\* onDidChangeTextDocument for document d: without a panel under its URI nothing, else
\* the change is taken for the echo of the recorded write or the timer is armed
PanelDocumentChanged(d, echo) ==
    /\ LET panelId == reg.uri[d]
       IN IF reg.webviewPanelMap[panelId] = NoPanel THEN reg' = reg
          ELSE IF echo /\ panelId \in reg.suppressNextDocToWebviewSync
          THEN reg' = [reg EXCEPT !.suppressNextDocToWebviewSync = @ \ {panelId}]
          ELSE reg' = [reg EXCEPT !.docToWebviewSyncTimers = @ \cup {panelId}]
    /\ UNCHANGED bindingState

\* the debounce timer registered under panelId fires
PanelTimerFired(panelId) ==
    /\ panelId \in reg.docToWebviewSyncTimers
    /\ reg' = [reg EXCEPT !.docToWebviewSyncTimers = @ \ {panelId}]
    /\ UNCHANGED bindingState

\* the provider with its panels: documents are opened in the editor, saved under new
\* URIs and edited, panels post messages and are closed
NextPanels ==
    \/ \E d \in Docs, hasSchema \in BOOLEAN : OpenEditor(d, hasSchema)
    \/ \E d \in Docs, u \in FileUris : DocumentSavedAs(d, u)
    \/ \E p \in Panels : PanelDispose(p)
    \/ \E p \in Panels : PanelReady(p)
    \/ \E p \in Panels : PanelWriteStart(p)
    \/ \E p \in Panels : PanelWriteEnd(p)
    \/ \E d \in Docs, echo \in BOOLEAN : PanelDocumentChanged(d, echo)
    \/ \E panelId \in Uris : PanelTimerFired(panelId)

SpecPanels == Init /\ [][NextPanels]_vars

\* 'change' event on a leaf control whose value is the one it had at the last event
\* (the control loses the focus after the input events): the dirty set is updated from
\* the control, then handleFormChange
FormChange(path) ==
    /\ CanEdit
    /\ handleFormChange(ctl, arrItems, mapItems,
                        markDirtyFromControl(dirtyPaths, baseData, path, ctl[path]),
                        dirtyCollectionPaths, "change", path)

\* the form over the documents with a map at /m, an empty one among them: inputs on
\* the leaf controls and the change events that follow them
NextChange ==
    \/ nFormEdits < MaxChangeEvents /\ FormLeafEdit
    \/ nFormEdits < MaxChangeEvents /\ \E path \in LeafPaths : FormChange(path)
    \/ OwnerStep
    \/ FormRecvParsed

SpecChange == InitMap /\ [][NextChange]_vars

\* the form over a document with an array of objects at /list: adds, removals and
\* inputs on its items and on the items of the arrays in them
ListInitialTexts ==
    { Stringify(<<[k |-> "a", v |-> Scalar(1)]>>),
      Stringify(<<[k |-> ListKey,
                   v |-> ArrayOf(<<ObjectOf(<<[k |-> "n", v |-> Scalar(1)]>>)>>)]>>) }

InitList == InitFrom(ListInitialTexts)

ListAddresses == (1..MaxListItems) \X (0..MaxListItems)

FormListEdit ==
    \/ \E arrayPath \in AddButtonPaths(dom.list) :
           Len(ListElements(dom.list, 1)) < MaxListItems /\ FormListAdd(arrayPath)
    \/ \E addr \in ListAddresses : FormListRemove(addr)
    \/ \E addr \in ListAddresses, v \in {0} \cup Scalars : FormListInput(addr, v)

NextList ==
    \/ nFormEdits < MaxListEdits /\ FormListEdit
    \/ OwnerStep
    \/ FormRecvParsed

SpecList == InitList /\ [][NextList]_vars

\* the form over a page that also has a leaf control at /o/x and, at /u, an object of
\* two variants that bind /u/type (their discriminator) and /u/v both, the second one
\* /u/w too: inputs, valid or not, on the leaf controls and on the items of /arr,
\* adds and removals of items and changes of the variant
NewControl(path, variant, const) ==
    [path |-> path, value |-> 0, variant |-> variant, const |-> const,
     disabled |-> const # Undef]

PageHtml ==
    << NewControl("/o/x", NoVariant, Undef),
       NewControl("/u/type", 0, Scalar(1)),
       NewControl("/u/v", 0, Undef),
       NewControl("/u/type", 1, Scalar(2)),
       NewControl("/u/v", 1, Undef),
       NewControl("/u/w", 1, Undef) >>

\* documents of the first variant and of the second, with an empty array and an empty
\* object among them
PageInitialTexts ==
    { Stringify(<<[k |-> "a", v |-> Scalar(1)],
                  [k |-> "o", v |-> ObjectOf(<<[k |-> "x", v |-> Scalar(1)]>>)],
                  [k |-> "u", v |-> ObjectOf(<<[k |-> DiscriminatorKey, v |-> Scalar(1)],
                                               [k |-> "v", v |-> Scalar(1)]>>)],
                  [k |-> ArrayKey, v |-> ArrayOf(<<>>)]>>),
      Stringify(<<[k |-> "a", v |-> Scalar(1)],
                  [k |-> "o", v |-> ObjectOf(EmptyObj)],
                  [k |-> "u", v |-> ObjectOf(<<[k |-> DiscriminatorKey, v |-> Scalar(2)],
                                               [k |-> "v", v |-> Scalar(1)],
                                               [k |-> "w", v |-> Scalar(1)]>>)],
                  [k |-> ArrayKey, v |-> ArrayOf(<<Scalar(1)>>)]>>) }

InitPage ==
    /\ InitBinding(PageInitialTexts)
    /\ dom = [NoDom EXCEPT !.html = PageHtml]
    /\ call = NoCall

\* what the user leaves in a control: nothing, a text, another one, one that fails the
\* control's constraint
PageTexts == {0, 1, 2, BadInput}

FormPageEdit ==
    \/ \E p \in LeafPaths, v \in PageTexts : FormInput(p, v)
    \/ \E i \in 1..Len(arrItems), v \in PageTexts : FormArrayInput(i, v)
    \/ FormArrayAdd
    \/ \E i \in 1..Len(arrItems) : FormArrayRemove(i)
    \/ \E i \in 1..Len(PageHtml), v \in PageTexts : FormDomInput(i, v)
    \/ \E idx \in {0, 1} : FormSelectorChange(idx)

NextPage ==
    \/ nFormEdits < MaxPageEdits /\ FormPageEdit
    \/ OwnerStep
    \/ FormRecvParsed

SpecPage == InitPage /\ [][NextPage]_vars

\* the form over a page whose second variant also holds an array of scalars at /u/s,
\* with a map at /m and the array of objects at /list: changes of the variant, inputs on
\* the controls of the page, adds and removals of items of the arrays, edits of the map
UnionHtml == PageHtml \o <<NewControl(InnerTemplatePath, 1, Undef)>>

\* a document of the first variant that has elements at /u/s already
UnionInitialTexts ==
    { Stringify(<<[k |-> "a", v |-> Scalar(1)],
                  [k |-> "u", v |-> ObjectOf(<<[k |-> DiscriminatorKey, v |-> Scalar(1)],
                                               [k |-> "v", v |-> Scalar(1)],
                                               [k |-> "s", v |-> ArrayOf(<<Scalar(1), Scalar(1)>>)]>>)],
                  [k |-> MapKey, v |-> ObjectOf(<<[k |-> "x", v |-> Scalar(1)]>>)],
                  [k |-> ListKey,
                   v |-> ArrayOf(<<ObjectOf(<<[k |-> "n", v |-> Scalar(1)]>>)>>)]>>) }

InitUnion ==
    /\ InitBinding(UnionInitialTexts)
    /\ dom = [NoDom EXCEPT !.html = UnionHtml]
    /\ call = NoCall

\* what the user leaves in a control of that page
UnionTexts == {0, 2, BadInput}

FormUnionEdit ==
    \/ \E idx \in {0, 1} : FormSelectorChange(idx)
    \/ \E i \in 1..Len(dom.controls), v \in UnionTexts : FormDomInput(i, v)
    \/ FormInnerAdd
    \/ \E k \in 1..Len(InnerItems(dom)) : FormInnerRemove(k)
    \/ FormMapAdd
    \/ \E i \in 1..Len(mapItems) : FormMapRemove(i)
    \/ \E i \in 1..Len(mapItems), k \in {"", "y/z"} : FormMapKeyInput(i, k)
    \/ \E i \in 1..Len(mapItems), v \in UnionTexts : FormMapValueInput(i, v)
    \/ \E arrayPath \in AddButtonPaths(dom.list) : FormListAdd(arrayPath)
    \/ \E addr \in ListAddresses : FormListRemove(addr)
    \/ \E addr \in ListAddresses, v \in UnionTexts : FormListInput(addr, v)

NextUnion ==
    \/ nFormEdits < MaxUnionEdits /\ FormUnionEdit
    \/ OwnerStep
    \/ FormRecvParsed

SpecUnion == InitUnion /\ [][NextUnion]_vars

\* the binding under edits of $schema in the text and inputs on the form: the timer's
\* callback reloads the schema, which takes any time and can fail
ExternalSchema == \E t \in SchemaTexts(text) : ExternalEdit(t)

SchemaReloaded == \E i \in 1..Len(reload), loaded \in BOOLEAN : SchemaLoaded(i, loaded)

NextSchema ==
    \/ nFormEdits + nExtEdits < MaxSchemaEdits /\ \E p \in LeafPaths, v \in {0} \cup Scalars : FormInput(p, v)
    \/ nFormEdits + nExtEdits < MaxSchemaEdits /\ ExternalSchema
    \/ System
    \/ SchemaReloaded

SpecSchema == Init /\ [][NextSchema]_vars

\* the writes of the form where the owner can fail to open the document, find it
\* closed or have its edit refused
OwnerReject == OwnerNoDocument \/ OwnerDocumentClosed \/ OwnerEditRefused

NextReject ==
    \/ nFormEdits < MaxFormEdits /\ FormEdit
    \/ OwnerReject
    \/ SystemParsed

SpecReject == Init /\ [][NextReject]_vars

\* the same where workspace.applyEdit can also throw
NextAnswer ==
    \/ nFormEdits < MaxFormEdits /\ FormEdit
    \/ OwnerReject
    \/ OwnerWriteException
    \/ SystemParsed

SpecAnswer == Init /\ [][NextAnswer]_vars

\* the Form Replica alone after the handshake: snapshots of any content reach it at
\* any moment between its edits
NextLoad ==
    \/ nFormEdits < MaxFormEdits /\ FormEdit
    \/ nInjected < MaxInjected /\ \E json \in LoadTexts : InjectLoadJson(json)
    \/ OwnerReady
    \/ FormRecvLoadSchema
    \/ FormRecvLoadJson
    \/ Tick

SpecLoad == Init /\ [][NextLoad]_vars

\* the Document Owner's message handlers under any input: envelopes of any session and
\* revision, with the form handling the answers
NextOwner ==
    \/ nInjected < MaxInjected
       /\ \E json \in InjectedTexts, rev \in 1..MaxRev, sid \in {1, 2} :
              InjectUpdateJson(json, rev, sid)
    \/ nInjected < MaxInjected /\ \E sid \in {1, 2} : InjectReady(sid)
    \/ FormRecvParsed
    \/ OwnerStep

SpecOwner == Init /\ [][NextOwner]_vars

\* the newest session the owner has heard of: a reloaded webview posts under a new
\* sessionId, after everything the page before it posted
NewestSession ==
    LET heard == {1} \cup {toOwner[i].sessionId : i \in 1..Len(toOwner)}
                    \cup (IF cur = NoMsg THEN {} ELSE {cur.sessionId})
                    \cup (IF lastApplied.set THEN {lastApplied.sessionId} ELSE {})
    IN CHOOSE sid \in heard : \A other \in heard : other <= sid

\* the owner's handlers under the envelopes of a webview that is reloaded: any revision,
\* no session older than the newest
NextSessions ==
    \/ nInjected < MaxSessionMsgs
       /\ \E json \in InjectedTexts, rev \in 1..MaxRev, sid \in Sessions :
              sid >= NewestSession /\ InjectUpdateJson(json, rev, sid)
    \/ nInjected < MaxSessionMsgs
       /\ \E sid \in Sessions : sid > NewestSession /\ InjectReady(sid)
    \/ FormRecvParsed
    \/ OwnerStep

SpecSessions == Init /\ [][NextSessions]_vars

\* the webview is reloaded: the page's script runs again, so the constructor and init()
\* build a replica with empty data under a fresh sessionId and post ready; what was on
\* its way to the page before is gone with it
FormReload ==
    /\ sessionId + 1 \in Sessions
    /\ data' = EmptyObj
    /\ baseData' = EmptyObj
    /\ dirtyPaths' = <<>>
    /\ dirtyCollectionPaths' = <<>>
    /\ ctl' = [p \in LeafPaths |-> 0]
    /\ arrItems' = <<>>
    /\ mapItems' = <<>>
    /\ hasForm' = FALSE
    /\ sessionId' = sessionId + 1
    /\ syncRev' = 0
    /\ lastSentRev' = 0
    /\ lastAckRev' = 0
    /\ lastSentJsonText' = NoText
    /\ lastSentJsonTs' = EchoWindowMs
    /\ toOwner' = Append(toOwner, ReadyMsg(sessionId + 1))
    /\ toForm' = <<>>
    /\ formTouched' = {}
    /\ ackLog' = <<>>
    /\ lastLoad' = NoLoad
    /\ dom' = NoDom
    /\ UNCHANGED <<ownerVars, nFormEdits, nExtEdits, nRefused, nInjected, extChange, call,
                   extVars>>

\* the form's request for a schema: { command: 'loadSchema', schemaUrl }
LoadSchemaRequest(url) ==
    [command |-> "loadSchema", json |-> NoText, rev |-> 0, sessionId |-> 0, ok |-> TRUE,
     reason |-> "", schemaUrl |-> url]

\* click on an item of the schema dialog: loadSchema(url) posts the request
FormPickSchema(url) ==
    /\ nInjected' = nInjected + 1
    /\ toOwner' = Append(toOwner, LoadSchemaRequest(url))
    /\ UNCHANGED <<formVars, ownerVars, toForm,
                   nFormEdits, nExtEdits, nRefused, extChange, formTouched, ackLog, lastLoad,
                   dom, call, extVars>>

\* case 'loadSchema': the URL is recorded for the panel and _loadSchema posts the markup,
\* or showError when the schema could not be loaded; no loadJson follows
OwnerLoadSchema(loaded) ==
    /\ ownerPc = "idle"
    /\ toOwner # <<>>
    /\ Head(toOwner).command = "loadSchema"
    /\ toOwner' = Tail(toOwner)
    /\ schemaUrl' = Head(toOwner).schemaUrl
    /\ toForm' = Append(toForm, IF loaded THEN LoadSchemaMsg ELSE ShowErrorMsg)
    /\ UNCHANGED <<formVars, ownerVars, nFormEdits, nExtEdits, nRefused, nInjected,
                   extChange, formTouched, ackLog, lastLoad, dom, call, reload, appliedRev,
                   reg, snapshotSent>>

\* the binding with a webview that can be reloaded and a user who can pick a schema in
\* the schema dialog
NextReload ==
    \/ nFormEdits < MaxReloadEdits
       /\ \E path \in LeafPaths, v \in {0} \cup Scalars : FormInput(path, v)
    \/ FormReload
    \/ nInjected < MaxPicks /\ \E url \in SchemaUrls : FormPickSchema(url)
    \/ \E loaded \in BOOLEAN : OwnerLoadSchema(loaded)
    \/ System

SpecReload == Init /\ [][NextReload]_vars

\* one call of a JSON Pointer function on one of the roots
InitPointer ==
    /\ InitBinding(InitialTexts)
    /\ dom = NoDom
    /\ call \in PointerCalls

NextPointer == CallSetValueAtPointer \/ CallGetValueAtPointer \/ CallDeleteValueAtPointer

SpecPointer == InitPointer /\ [][NextPointer]_vars

\* ------------------------------------------------------------------ claims
NoUpdateInFlight ==
    /\ \A i \in 1..Len(toOwner) : toOwner[i].command # "updateJson"
    /\ ownerPc = "idle"

\* every revision sent so far has been answered and the answer has been received
AllAcked ==
    /\ NoUpdateInFlight
    /\ \A i \in 1..Len(toForm) : toForm[i].command # "updateJsonAck"

\* no message in flight, no handler running, no debounce timer armed
Quiescent ==
    /\ hasForm
    /\ toOwner = <<>>
    /\ toForm = <<>>
    /\ ownerPc = "idle"
    /\ ~syncTimer.set

\* pointer of a top-level key
PointerOfKey(k) == CHOOSE p \in LeafPaths \cup {ArrayPath} : parsePointer(p) = <<StrPart(k)>>

\* the form handles the acknowledgment at the head of its channel
AckStep ==
    /\ toForm # <<>>
    /\ Head(toForm).command = "updateJsonAck"
    /\ toForm' = Tail(toForm)

\* the owner takes the write at the head of its queue
WriteStep ==
    /\ ownerPc = "idle"
    /\ toOwner # <<>>
    /\ Head(toOwner).command = "updateJson"
    /\ toOwner' = Tail(toOwner)

\* the owner takes the ready at the head of its queue
ReadyStep ==
    /\ toOwner # <<>>
    /\ Head(toOwner).command = "ready"
    /\ toOwner' = Tail(toOwner)

\* the change listener runs: the text changed, an edit was applied or the dirty state changed
ChangeEvent ==
    \/ text' # text
    \/ isDirty' # isDirty
    \/ ownerPc = "applyEdit" /\ ownerPc' = "ack"

\* C1: without external edits, whenever every sent revision has been acknowledged the
\* Base Snapshot equals the parsed text surface
C1_BaseEqualsTextWhenAcked ==
    (lastSentRev > 0 /\ AllAcked) => (Parses(text) /\ baseData = Parse(text))

\* C2: after form edits and parseable external edits, once nothing is in flight and no
\* debounce timer is armed, the live value and the Base Snapshot equal the parsed text
C2_ConvergedWhenQuiescent ==
    Quiescent => (Parses(text) /\ data = Parse(text) /\ baseData = Parse(text))

\* C3: of the ok acknowledgments, arriving in any order, only the one whose rev equals
\* lastSentRev advances the Base Snapshot; one with lastAckRev <= rev < lastSentRev only
\* sets lastAckRev; one with rev < lastAckRev changes nothing
C3_OnlyLatestAckAdvancesBase ==
    [][(AckStep /\ Head(toForm).ok) =>
         LET rev == Head(toForm).rev
         IN /\ rev # lastSentRev =>
                  UNCHANGED <<baseData, dirtyPaths, dirtyCollectionPaths>>
            /\ (lastAckRev <= rev /\ rev < lastSentRev) =>
                  /\ lastAckRev' = rev
                  /\ UNCHANGED <<data, baseData, dirtyPaths, dirtyCollectionPaths, ctl,
                                 arrItems, mapItems, hasForm, sessionId, syncRev, lastSentRev,
                                 lastSentJsonText, lastSentJsonTs, toOwner>>
            /\ rev < lastAckRev => UNCHANGED <<formVars, toOwner>>]_vars

\* C3 witness: the acknowledgment of revision 1 came after the one of the latest
\* revision and the Base Snapshot still holds the latest revision's content
C3_LateAckHandled ==
    /\ Len(ackLog) >= 2
    /\ ackLog[Len(ackLog)] < ackLog[Len(ackLog) - 1]
    /\ ackLog[Len(ackLog) - 1] = lastSentRev
    /\ lastAckRev = lastSentRev
    /\ baseData = Parse(lastSentJsonText)
    /\ baseData # EmptyObj

C5_BothChangesSurvive ==
    ( /\ Quiescent
      /\ nExtEdits = 1
      /\ nFormEdits = 1
      /\ lastSentRev = 1
      /\ \A c \in extChange : PointerOfKey(c[1]) \notin formTouched )
    => ( /\ Parses(text)
         /\ \A c \in extChange : GetKey(Parse(text), c[1]) = c[2]
         /\ \A p \in formTouched :
                getValueAtPointer(Parse(text), p)
                    = getValueAtPointer(Parse(lastSentJsonText), p) )

\* C6: after finitely many form and external edits the binding comes to rest with
\* nothing in flight and no debounce timer armed, and handling a loadJson, an
\* acknowledgment or any other message never makes the Form Replica send a write
C6_NoUpdateLoop ==
    /\ <>[]Quiescent
    /\ [][(toForm # <<>> /\ toForm' = Tail(toForm)) =>
            UNCHANGED <<toOwner, syncRev, lastSentRev>>]_vars

\* C6 witness: at rest after the edits, a form write among them, its echo and the
\* save's change event all dealt with
C6_AtRestAfterEdits ==
    /\ Quiescent
    /\ nFormEdits + nExtEdits = MaxEdits
    /\ nExtEdits > 0
    /\ lastSentRev > 0
    /\ lastAckRev = lastSentRev
    /\ ~isDirty

C8_SessionResetsStaleGuard ==
    [][ /\ ( WriteStep /\ lastApplied.set
               /\ Head(toOwner).sessionId # lastApplied.sessionId )
           => toForm' # Append(toForm, AckMsg(FALSE, Head(toOwner).rev, "stale-rev"))
        /\ ( ReadyStep /\ (~lastApplied.set
                             \/ Head(toOwner).sessionId # lastApplied.sessionId) )
           => lastApplied' = [sessionId |-> Head(toOwner).sessionId, rev |-> 0, set |-> TRUE]
        /\ ( ownerPc = "ack" /\ ownerPc' = "idle" )
           => lastApplied' = [sessionId |-> cur.sessionId, rev |-> cur.rev, set |-> TRUE]
      ]_vars

\* C8 witness: the owner applied a write of session 2 whose rev is not above a rev it
\* had applied before for session 1
C8_OtherSessionApplied ==
    /\ Len(ackLog) >= 2
    /\ ackLog[Len(ackLog)] <= ackLog[Len(ackLog) - 1]
    /\ lastApplied = [sessionId |-> 2, rev |-> ackLog[Len(ackLog)], set |-> TRUE]
    /\ text \in InjectedTexts
    /\ written.set /\ written.json = text

C10_EveryEchoSuppressed ==
    [][( /\ ChangeEvent
         /\ written.set
         /\ written.ts < SuppressWindowMs
         /\ text' = written.json )
       => UNCHANGED <<syncTimer, toForm>>]_vars

\* a loadJson is taken off the channel by the form
LoadJsonStep ==
    /\ toForm # <<>>
    /\ Head(toForm).command = "loadJson"
    /\ toForm' = Tail(toForm)

\* the same content whatever the order of the keys
SameContent(x, y) ==
    /\ (x = NullDoc) = (y = NullDoc)
    /\ \A k \in Keys : GetKey(x, k) = GetKey(y, k)

\* the snapshot at the head of the channel has the content of the last write sent
HeadEqualsLastSent ==
    /\ lastSentJsonText # NoText
    /\ Parses(Head(toForm).json)
    /\ SameContent(Parse(Head(toForm).json), Parse(lastSentJsonText))

\* C11: a loadJson that arrives within the echo window after the last send and whose
\* content equals the last-sent content, whatever the order of the keys, changes nothing
\* in the replica: base, live value, dirty sets, revision counters and the rendered
\* controls stay as they are and nothing is sent
C11_OwnEchoAbsorbed ==
    [][ (LoadJsonStep /\ HeadEqualsLastSent /\ lastSentJsonTs < EchoWindowMs)
        => UNCHANGED <<data, baseData, dirtyPaths, dirtyCollectionPaths, ctl, arrItems, mapItems,
                       syncRev, lastSentRev, lastAckRev, toOwner>> ]_vars

\* an echo with the keys in another order was absorbed while the write was unacknowledged
C11_ReorderedEchoAbsorbed ==
    /\ lastLoad.did = "absorbed"
    /\ lastLoad.same
    /\ lastLoad.reordered
    /\ lastAckRev < lastSentRev
    /\ baseData # data

AcceptStep == LoadJsonStep /\ lastLoad'.did = "replaced"

\* C13 as stated: right after the form accepts a forwarded snapshot, the base and the
\* live value both equal the snapshot's document value and both dirty sets are empty; a
\* snapshot whose text does not parse leaves base, live value and dirty sets as they were
C13_AcceptedSnapshotIsBase ==
    [][ /\ AcceptStep
           => /\ baseData' = Parse(Head(toForm).json)
              /\ data' = Parse(Head(toForm).json)
              /\ dirtyPaths' = <<>>
              /\ dirtyCollectionPaths' = <<>>
        /\ (LoadJsonStep /\ ~Parses(Head(toForm).json))
           => UNCHANGED <<data, baseData, dirtyPaths, dirtyCollectionPaths>> ]_vars

\* C13: right after the form accepts a forwarded snapshot, the live value equals the
\* snapshot's document value, the base equals it too unless that value is null, in which
\* case the base is the empty object, and both dirty sets are empty; a snapshot whose
\* text does not parse leaves base, live value and dirty sets as they were
C13_AcceptedSnapshotIsBaseUnlessNull ==
    [][ /\ AcceptStep
           => /\ baseData' = IF Parse(Head(toForm).json) = NullDoc
                             THEN EmptyObj
                             ELSE Parse(Head(toForm).json)
              /\ data' = Parse(Head(toForm).json)
              /\ dirtyPaths' = <<>>
              /\ dirtyCollectionPaths' = <<>>
        /\ (LoadJsonStep /\ ~Parses(Head(toForm).json))
           => /\ lastLoad'.did = "unparsed"
              /\ UNCHANGED <<data, baseData, dirtyPaths, dirtyCollectionPaths>> ]_vars

\* the snapshot "null" was accepted while a write of the form was unacknowledged: the
\* live value is null, the base is the empty object
C13_NullSnapshotAccepted ==
    /\ lastLoad.did = "replaced"
    /\ lastAckRev < lastSentRev
    /\ formTouched # {}
    /\ data = NullDoc
    /\ baseData = EmptyObj
    /\ dirtyPaths = <<>>
    /\ dirtyCollectionPaths = <<>>

\* the debounce timer's callback runs: only it takes the timer away
TimerFireStep == syncTimer.set /\ ~syncTimer'.set

\* the form takes a showError off the channel
ShowErrorStep ==
    /\ toForm # <<>>
    /\ Head(toForm).command = "showError"
    /\ toForm' = Tail(toForm)

\* C14: when the debounced text does not parse, the owner posts one showError and neither
\* a loadJson nor a loadSchema, and the form, handling that showError, keeps its base,
\* live value, dirty sets and controls; the base is next replaced by a snapshot only when
\* a parseable text is forwarded
C14_UnparseableTextNotForwarded ==
    [][ /\ (TimerFireStep /\ ~Parses(text))
           => /\ toForm' = Append(toForm, ShowErrorMsg)
              /\ UNCHANGED <<formVars, text>>
        /\ ShowErrorStep
           => UNCHANGED <<formVars, toOwner>>
        /\ (TimerFireStep /\ Parses(text))
           => toForm' = Append(toForm, LoadJsonMsg(Stringify(Parse(text)))) ]_vars

\* the form has handled the showError of an unparseable text and still holds the base
\* of the handshake, the text surface being unparseable
C14_ErrorShownBaseKept ==
    /\ ~Parses(text)
    /\ ~syncTimer.set
    /\ nExtEdits > 0
    /\ toForm = <<>>
    /\ hasForm
    /\ nFormEdits = 0
    /\ baseData = Parse(CHOOSE t \in InitialTexts : TRUE)
    /\ lastLoad.did = "replaced"

\* the change event of this step is taken for the echo of the recorded write
EchoEvent ==
    /\ ChangeEvent
    /\ suppress.set
    /\ suppress.ts < SuppressWindowMs
    /\ text' = suppress.json

\* C15: every change event that is not an echo leaves one pending timer with its full
\* delay ahead, whatever timer was pending before; the timer fires only when the delay
\* has passed since the last such event, is then gone, and posts exactly one message,
\* the loadJson of the text as it is after the last change
C15_BurstCoalesced ==
    [][ /\ (ChangeEvent /\ ~EchoEvent)
           => syncTimer' = [set |-> TRUE, elapsed |-> 0]
        /\ TimerFireStep
           => /\ syncTimer.elapsed >= DebounceMs
              /\ syncTimer' = NoTimer
              /\ text' = text
              /\ Len(toForm') = Len(toForm) + 1
              /\ Parses(text)
                 => toForm'[Len(toForm')] = LoadJsonMsg(Stringify(Parse(text)))
        /\ (toForm' # toForm /\ Len(toForm') > Len(toForm)
            /\ toForm'[Len(toForm')].command = "loadJson"
            /\ toForm'[Len(toForm')].reason # "ready")
           => TimerFireStep ]_vars

\* two external edits in a row, the second before the timer of the first had fired, were
\* forwarded as one loadJson that carries the text after the second
C15_TwoEditsOneSnapshot ==
    /\ nExtEdits = 2
    /\ nFormEdits = 0
    /\ ~syncTimer.set
    /\ Parses(text)
    /\ Cardinality(extChange) > 0
    /\ Len(toForm) = 3
    /\ toForm[1] = LoadSchemaMsg
    /\ toForm[2].reason = "ready"
    /\ toForm[3] = LoadJsonMsg(Stringify(Parse(text)))

\* the owner starts handling the message at the head of its queue
DequeueStep == toOwner # <<>> /\ toOwner' = Tail(toOwner)

\* C16: the owner takes a message off its queue only from the head and only when no
\* handler is running; the write being applied is the one acknowledged, with no other
\* message handled in between; and a handler that ends, with ok or with a refusal,
\* leaves the owner free for the next message
C16_OneMessageAtATime ==
    [][ /\ toOwner' # toOwner
           => \/ DequeueStep /\ ownerPc = "idle"
              \/ /\ Len(toOwner') = Len(toOwner) + 1
                 /\ SubSeq(toOwner', 1, Len(toOwner)) = toOwner
        /\ ownerPc # "idle"
           => /\ toOwner = <<>> \/ toOwner' # Tail(toOwner)
              /\ cur' = cur \/ (ownerPc' = "idle" /\ cur' = NoMsg)
              /\ text' # text => text' = cur.json
        /\ (ownerPc # "idle" /\ ownerPc' = "idle")
           => /\ Len(toForm') = Len(toForm) + 1
              /\ toForm'[Len(toForm')].command = "updateJsonAck"
              /\ toForm'[Len(toForm')].rev = cur.rev
        /\ (ownerPc = "idle" /\ ownerPc' # "idle")
           => /\ DequeueStep
              /\ cur' = Head(toOwner) ]_vars

\* the first write was refused and the second, queued behind it, was applied
C16_LaterWriteAppliedAfterRefusal ==
    /\ nRefused = 1
    /\ lastSentRev = 2
    /\ lastApplied.set
    /\ lastApplied.rev = 2
    /\ ownerPc = "idle"
    /\ toOwner = <<>>
    /\ text = lastSentJsonText

\* the reasons of a write refused for its document
RefusalReasons == {"no-bound-document", "document-closed", "applyEdit-false"}

\* the owner posts the acknowledgment of a write refused for its document
RefusalStep ==
    /\ Len(toForm') = Len(toForm) + 1
    /\ toForm'[Len(toForm')].command = "updateJsonAck"
    /\ toForm'[Len(toForm')].reason \in RefusalReasons

\* C17: a write refused because the document could not be opened, is closed or the edit
\* was refused is acknowledged once with ok = false and the revision of its envelope;
\* the text and the last applied revision stay as they were, the echo record armed for
\* the write is gone, and the write is neither kept in the queue nor taken up again
C17_RefusedWriteLeavesNoTrace ==
    [][ RefusalStep
        => /\ ~toForm'[Len(toForm')].ok
           /\ toForm'[Len(toForm')].rev
                 = IF ownerPc = "applyEdit" THEN cur.rev ELSE Head(toOwner).rev
           /\ text' = text
           /\ lastApplied' = lastApplied
           /\ IF ownerPc = "applyEdit" THEN ~suppress'.set ELSE suppress' = suppress
           /\ syncTimer' = syncTimer
           /\ ownerPc' = "idle"
           /\ cur' = NoMsg
           /\ toOwner' = IF ownerPc = "applyEdit" THEN toOwner ELSE Tail(toOwner) ]_vars

\* the first write of the form had its edit refused: its acknowledgment is on the way,
\* nothing of it is in the text, the stale guard or the echo record
C17_EditRefusedAckPosted ==
    /\ nRefused = 1
    /\ toForm # <<>>
    /\ toForm[Len(toForm)] = AckMsg(FALSE, 1, "applyEdit-false")
    /\ lastSentRev = 1
    /\ text # lastSentJsonText
    /\ lastApplied.rev = 0
    /\ ~suppress.set
    /\ ownerPc = "idle"
    /\ toOwner = <<>>

\* C18: an acknowledgment with ok = false, whatever its revision and reason, leaves the
\* form's base, live value, dirty sets, controls, lastAckRev and lastSentRev as they
\* were, and the form sends nothing in answer
C18_FailedAckChangesNothing ==
    [][ (AckStep /\ ~Head(toForm).ok)
        => UNCHANGED <<baseData, data, dirtyPaths, dirtyCollectionPaths, ctl, arrItems, mapItems,
                       lastAckRev, lastSentRev, syncRev, lastSentJsonText, toOwner>> ]_vars

\* the form has handled an ok = false acknowledgment of its latest revision: the edit is
\* still dirty, the base is still the one before it
C18_FailedAckOfLatestHandled ==
    /\ hasForm
    /\ nInjected > 0
    /\ toForm = <<>>
    /\ lastSentRev = 1
    /\ lastAckRev = 0
    /\ baseData # data
    /\ Len(dirtyPaths) + Len(dirtyCollectionPaths) > 0

\* the form puts a write envelope on the channel
SendStep ==
    /\ Len(toOwner') = Len(toOwner) + 1
    /\ toOwner'[Len(toOwner')].command = "updateJson"

\* the revisions of the write envelopes on the channel, oldest first
RevsInFlight ==
    LET ws == SelectSeq(toOwner, LAMBDA m : m.command = "updateJson")
    IN [i \in 1..Len(ws) |-> ws[i].rev]

\* C19: the outgoing counter starts at 0; every write the form sends raises it by exactly
\* one, sets lastSentRev to it and carries it with the session's id, and the counter
\* changes at no other time: the envelopes carry 1, 2, 3, ... without gaps, whether or
\* not earlier ones have been acknowledged
C19_RevisionsCountUp ==
    /\ syncRev = 0 /\ lastSentRev = 0
    /\ [](/\ lastSentRev = syncRev
          /\ \A i \in 1..Len(RevsInFlight) :
                 RevsInFlight[i] = syncRev - (Len(RevsInFlight) - i))
    /\ [][ /\ SendStep
               => /\ syncRev' = syncRev + 1
                  /\ lastSentRev' = syncRev + 1
                  /\ toOwner'[Len(toOwner')].rev = syncRev + 1
                  /\ toOwner'[Len(toOwner')].sessionId = sessionId
                  /\ sessionId' = sessionId
           /\ (syncRev' # syncRev \/ lastSentRev' # lastSentRev)
               => SendStep ]_vars

\* revisions 1 and 2 are both on the channel and neither has been acknowledged
C19_TwoWritesInFlight ==
    /\ RevsInFlight = <<1, 2>>
    /\ lastAckRev = 0
    /\ ownerPc = "idle"
    /\ \A i \in 1..Len(toForm) : toForm[i].command # "updateJsonAck"

\* one of the form's edit handlers runs
FormEditStep == nFormEdits' = nFormEdits + 1

\* some key of the map's items fails the pattern, two items have the same key, or the
\* value control of an item is in an invalid edit state
MapIsInvalid ==
    \/ \E i \in 1..Len(mapItems) :
           mapItems[i].key # "" /\ ~KeyMatchesPattern(mapItems[i].key)
    \/ \E i, j \in 1..Len(mapItems) :
           i # j /\ mapItems[i].key # "" /\ mapItems[i].key = mapItems[j].key
    \/ \E i \in 1..Len(mapItems) :
           mapItems[i].key # "" /\ mapItems[i].val = BadInput

\* C20 as stated: when the map is a dirty collection and is invalid, the document the
\* form rebuilds has at the map pointer the value the base has there, and every dirty
\* leaf outside the map has the value of its control
C20_InvalidMapWithheld ==
    [][ (FormEditStep /\ SetHas(dirtyCollectionPaths', MapPath) /\ MapIsInvalid')
        => /\ getValueAtPointer(data', MapPath) = getValueAtPointer(baseData, MapPath)
           /\ \A p \in LeafPaths :
                  SetHas(dirtyPaths', p)
                  => getValueAtPointer(data', p) = readControlValue(ctl'[p]) ]_vars

\* the value the call's root held at the first n parts of the call's pointer
RootAtPrefix(n) == GetAt(ObjectOf(call.root), SubSeq(parsePointer(call.pointer), 1, n))

\* the value the call's result holds at the first n parts of the call's pointer
OutAtPrefix(n) == GetAt(call.out, SubSeq(parsePointer(call.pointer), 1, n))

\* pointer q lies on pointer p: one is the other or lies below it
OnPointer(q, p) ==
    LET qs == parsePointer(q)
        ps == parsePointer(p)
    IN \/ Len(qs) <= Len(ps) /\ SubSeq(ps, 1, Len(qs)) = qs
       \/ Len(ps) <= Len(qs) /\ SubSeq(qs, 1, Len(ps)) = ps

\* after set(root, p, v) with p not empty, get(root, p) is v
C30_GetReturnsWhatWasSet ==
    (call.fn = "setValueAtPointer" /\ parsePointer(call.pointer) # <<>>) =>
        getValueAtPointer(call.out.v, call.pointer) = call.value

\* a node that was missing on p is an array before a number and an object otherwise
C30_MissingNodesCreated ==
    call.fn = "setValueAtPointer" =>
        \A n \in 1..(Len(parsePointer(call.pointer)) - 1) :
            (RootAtPrefix(n) = Undef /\ ~call.threw) =>
                OutAtPrefix(n).t = IF parsePointer(call.pointer)[n + 1].num THEN "a" ELSE "o"

\* set leaves every location that is not on p as it was
C30_OtherLocationsKept ==
    call.fn = "setValueAtPointer" =>
        \A q \in Pointers :
            ~OnPointer(q, call.pointer) =>
                getValueAtPointer(call.out.v, q) = getValueAtPointer(call.root, q)

\* set with the empty pointer changes nothing
C30_EmptyPointerSetsNothing ==
    (call.fn = "setValueAtPointer" /\ parsePointer(call.pointer) = <<>>) =>
        call.out = ObjectOf(call.root)

\* get through a node that is missing or null is undefined
C30_GetThroughMissingIsUndefined ==
    call.fn = "getValueAtPointer" =>
        \A n \in 0..(Len(parsePointer(call.pointer)) - 1) :
            RootAtPrefix(n).t \in {"u", "n"} => call.out = Undef

\* C30: for every non-empty pointer p, after set(root, p, v) get(root, p) returns v,
\* every missing intermediate node on p was created as an array when the following
\* segment is all digits and as an object otherwise, and every location not on p is
\* unchanged; set with the empty pointer changes nothing, and get through a missing or
\* null node returns undefined
C30_SetThenGet ==
    /\ C30_GetReturnsWhatWasSet
    /\ C30_MissingNodesCreated
    /\ C30_OtherLocationsKept
    /\ C30_EmptyPointerSetsNothing
    /\ C30_GetThroughMissingIsUndefined

\* ---- C21
\* the items of /list are the given ones less one, in the same order
IsRemovalOf(before, after) ==
    \E k \in 1..Len(before) :
        [i \in 1..Len(after) |-> after[i].uid]
            = [i \in 1..(Len(before) - 1) |-> before[IF i < k THEN i ELSE i + 1].uid]

\* item k of /list has data-array-index k - 1 and its control is bound under /list/(k-1)
IsBoundInOrder(litems) ==
    \A k \in 1..Len(litems) :
        /\ litems[k].index = k - 1
        /\ litems[k].n.path = ListPath \o "/" \o String(k - 1) \o "/n"
        /\ \A j \in 1..Len(litems[k].c) : litems[k].c[j].index = j - 1

\* C21: the items of an array have the indices 0..n-1 in order and every pointer under
\* an item is arrayPointer/index/..., after any adds and removals; removing an item of
\* n leaves the other n-1 in their order
C21_IndicesInOrder ==
    [][ /\ IsBoundInOrder(dom'.list)
        /\ (FormEditStep /\ Len(dom'.list) = Len(dom.list) - 1)
               => IsRemovalOf(dom.list, dom'.list) ]_vars

\* ---- C29
\* s.includes(sub)
includes(s, sub) ==
    \E i \in 1..(Len(s) - Len(sub) + 1) : SubSeq(s, i, i + Len(sub) - 1) = sub

\* the pointer holds a placeholder token of the templates
HasPlaceholder(pointer) == includes(pointer, "__INDEX__") \/ includes(pointer, "__KEY__")

\* C29: no pointer of the Dirty Leaf Set or of the Dirty Collection Set, and so none
\* the rebuild sets or deletes, holds the placeholder __INDEX__ or __KEY__, arrays
\* nested inside array items included
C29_NoPlaceholderInPointers ==
    /\ \A i \in 1..Len(dirtyPaths) : ~HasPlaceholder(dirtyPaths[i])
    /\ \A i \in 1..Len(dirtyCollectionPaths) : ~HasPlaceholder(dirtyCollectionPaths[i])

\* ---- C22
\* the step is a form edit that renames the key of item i of the map from a non-empty
\* key to another non-empty one that matches the pattern and that no other item holds;
\* the item has a value and no other item holds the old key
IsRenameOf(i) ==
    /\ FormEditStep
    /\ Len(mapItems') = Len(mapItems)
    /\ i \in 1..Len(mapItems)
    /\ mapItems[i].key # ""
    /\ mapItems'[i].key # ""
    /\ mapItems'[i].key # mapItems[i].key
    /\ KeyMatchesPattern(mapItems'[i].key)
    /\ mapItems'[i].val \in Scalars
    /\ \A j \in 1..Len(mapItems) :
           j # i => mapItems'[j].key \notin {mapItems[i].key, mapItems'[i].key}

\* the pointer of item i went from /m/encode(old) to /m/encode(new) and the other items
\* were left alone
PointersRebound(i) ==
    /\ mapItems[i].path = MapPath \o "/" \o encodeJsonPointerSegment(mapItems[i].key)
    /\ mapItems'[i].path = MapPath \o "/" \o encodeJsonPointerSegment(mapItems'[i].key)
    /\ \A j \in 1..Len(mapItems) : j # i => mapItems'[j] = mapItems[j]

\* the rebuilt document holds the value of item i under the new key and nothing under
\* the old one
RebuiltHasNewKey(i) ==
    LET m == getValueAtPointer(data', MapPath)
    IN /\ m.t = "o"
       /\ GetKey(m.v, mapItems'[i].key) = readControlValue(mapItems'[i].val)
       /\ ~HasKey(m.v, mapItems[i].key)

ObjectPointers == {"/o", AnyOfPath}

\* an object the base has with members is not left behind empty by the rebuild
EmptiedObjectRemoved(q) ==
    (getValueAtPointer(baseData, q).t = "o" /\ Len(getValueAtPointer(baseData, q).v) > 0)
        => getValueAtPointer(data', q) # ObjectOf(EmptyObj)

\* an object that is empty in the base is still there after the rebuild
BaseEmptyObjectKept(q) ==
    getValueAtPointer(baseData, q) = ObjectOf(EmptyObj)
        => getValueAtPointer(data', q).t = "o"

\* C27: the rebuild removes an object that its deletions have emptied and keeps an
\* object that is already empty in the Base Snapshot
C27_PruneEmptiedKeepBaseEmpty ==
    [][ FormEditStep
        => \A q \in ObjectPointers : EmptiedObjectRemoved(q) /\ BaseEmptyObjectKept(q) ]_vars

\* ---- C28
\* control i of the page stands in the active variant, its pointer is dirty and it
\* provides a value
ActiveControlProvides(d, dps, i) ==
    /\ d.controls[i].variant = d.selector
    /\ SetHas(dps, d.controls[i].path)
    /\ ~isControlInInvalidEditStateOf(d, d.controls[i])
    /\ readControlValueOf(d, d.controls[i]) # Undef

\* C28: where variants bind the same pointers the rebuilt document holds, at each
\* dirty pointer, the value of the active variant's control; a control of an inactive
\* variant neither writes there nor has the value deleted
C28_ActiveVariantWins ==
    [][ FormEditStep
        => \A i \in 1..Len(dom'.controls) :
               ActiveControlProvides(dom', dirtyPaths', i)
               => getValueAtPointer(data', dom'.controls[i].path)
                      = readControlValueOf(dom', dom'.controls[i]) ]_vars

\* ---- C24
\* the value of the leaf control of c at p differs from the base's at p
LeafDiffers(c, base, p) == readControlValue(c[p]) # getValueAtPointer(base, p)

\* a control of d.controls bound to p, in the active variant if in one, has a value
\* that differs from the base's at p
DomControlDiffers(d, base, p) ==
    \E i \in 1..Len(d.controls) :
        /\ d.controls[i].path = p
        /\ IsActive(d, d.controls[i])
        /\ readControlValueOf(d, d.controls[i]) # getValueAtPointer(base, p)

\* the pointer denotes a value that differs from the Base Snapshot
PointerDiffers(c, d, base, p) ==
    IF p \in LeafPaths THEN LeafDiffers(c, base, p) ELSE DomControlDiffers(d, base, p)

\* after an input on a leaf control, its pointer is in the Dirty Leaf Set exactly if
\* its value differs from the base's
MarkedIffDiffers ==
    /\ \A p \in LeafPaths :
           (FormEditStep /\ ctl'[p] # ctl[p])
           => (SetHas(dirtyPaths', p)
                   <=> readControlValue(ctl'[p]) # getValueAtPointer(baseData, p))
    /\ \A i \in 1..Len(dom.controls) :
           (FormEditStep /\ Len(dom'.controls) = Len(dom.controls)
                /\ dom'.controls[i].value # dom.controls[i].value)
           => (SetHas(dirtyPaths', dom.controls[i].path)
                   <=> readControlValueOf(dom', dom'.controls[i])
                           # getValueAtPointer(baseData, dom.controls[i].path))

EditableControls(c, d, p) ==
    IF p \in DOMAIN c
    THEN queryControls(c, d, p)
    ELSE SelectSeq(d.controls, LAMBDA control : /\ control.path = p
                                                /\ IsActive(d, control)
                                                /\ ~control.disabled
                                                /\ control.const = Undef)

\* the control the user can type in at p is in an invalid edit state
LeafInvalid(c, d, p) ==
    /\ EditableControls(c, d, p) # <<>>
    /\ isControlInInvalidEditStateOf(d, EditableControls(c, d, p)[1])

\* the control the user can type in at p is in a valid edit state
LeafValid(c, d, p) ==
    /\ EditableControls(c, d, p) # <<>>
    /\ ~isControlInInvalidEditStateOf(d, EditableControls(c, d, p)[1])

\* the value of the control the user can type in at p
LeafValue(c, d, p) == readControlValueOf(d, EditableControls(c, d, p)[1])

\* the dirty leaf p, not shadowed by a dirty collection, is skipped by the rebuild when
\* its control is in an invalid edit state and applied when it is in a valid one
SkippedOrApplied(p) ==
    ~isUnderDirtyCollection(p, dirtyCollectionPaths')
    => /\ LeafInvalid(ctl', dom', p)
          => getValueAtPointer(data', p) = getValueAtPointer(baseData, p)
       /\ LeafValid(ctl', dom', p)
          => getValueAtPointer(data', p) = LeafValue(ctl', dom', p)

\* C25: the rebuild skips a dirty leaf whose control is in an invalid edit state, the
\* rebuilt document keeping the Base Snapshot value there, and still applies every
\* other dirty leaf that no dirty collection shadows
C25_InvalidLeafSkipped ==
    [][ FormEditStep
        => \A i \in 1..Len(dirtyPaths') : SkippedOrApplied(dirtyPaths'[i]) ]_vars

\* ---- C26
\* the dirty leaf p, its control in a valid edit state and no dirty collection above
\* it, is deleted from the rebuilt document when the control's value is undefined and
\* set to the value otherwise
DeletedOrSet(p) ==
    (~isUnderDirtyCollection(p, dirtyCollectionPaths') /\ LeafValid(ctl', dom', p))
    => IF LeafValue(ctl', dom', p) = Undef
       THEN getValueAtPointer(data', p) = Undef
       ELSE getValueAtPointer(data', p) = LeafValue(ctl', dom', p)

\* the rebuilt document has no empty array and no empty map at the pointer q
NoEmptyContainerAt(q) ==
    /\ getValueAtPointer(data', q) # ArrayOf(<<>>)
    /\ getValueAtPointer(data', q) # ObjectOf(EmptyObj)

\* C26: the rebuild deletes the location of a dirty leaf whose control value is
\* undefined and sets any other value there, and the rebuilt document never holds an
\* empty array or an empty map at a dirty collection pointer
C26_UndefinedDeletesEmptyRemoved ==
    [][ FormEditStep
        => /\ \A i \in 1..Len(dirtyPaths') : DeletedOrSet(dirtyPaths'[i])
           /\ \A j \in 1..Len(dirtyCollectionPaths') :
                  NoEmptyContainerAt(dirtyCollectionPaths'[j]) ]_vars

\* ---- C23
\* the data-path and the text of the items of the array in the variant
InnerItemTexts(d) ==
    [i \in 1..Len(InnerItems(d)) |->
        [path |-> InnerItems(d)[i].path, value |-> InnerItems(d)[i].value]]

\* an event on a control or an item under the collection root makes the root a dirty
\* collection and leaves the Dirty Leaf Set as it was
CollectionMarked ==
    /\ InnerItemTexts(dom') # InnerItemTexts(dom)
       => SetHas(dirtyCollectionPaths', InnerArrayPath) /\ dirtyPaths' = dirtyPaths
    /\ mapItems' # mapItems
       => SetHas(dirtyCollectionPaths', MapPath) /\ dirtyPaths' = dirtyPaths
    /\ \A k \in 1..Len(dom.list) :
           (Len(dom'.list) = Len(dom.list) /\ dom'.list[k].n.value # dom.list[k].n.value)
           => /\ \E j \in 1..Len(dirtyCollectionPaths') :
                     IsPathPrefix(dirtyCollectionPaths'[j], dom.list[k].n.path)
              /\ dirtyPaths' = dirtyPaths
    /\ \A k \in 1..Len(dom.list) : \A h \in 1..Len(dom.list[k].c) :
           (/\ Len(dom'.list) = Len(dom.list)
            /\ Len(dom'.list[k].c) = Len(dom.list[k].c)
            /\ dom'.list[k].c[h].v.value # dom.list[k].c[h].v.value)
           => /\ \E j \in 1..Len(dirtyCollectionPaths') :
                     IsPathPrefix(dirtyCollectionPaths'[j], dom.list[k].c[h].v.path)
              /\ dirtyPaths' = dirtyPaths

\* what the rebuild leaves at the dirty collection pointer q: the recomputed
\* collection, nothing if that is empty, the Base Snapshot's value if it is withheld
RecomputedAt(q) ==
    LET collected == collectCollectionValue(q, arrItems', mapItems', dom')
    IN IF collected = Undef THEN getValueAtPointer(baseData, q)
       ELSE IF Len(collected.v) = 0 THEN Undef
       ELSE collected

\* a dirty leaf at or below a dirty collection pointer is not applied: the rebuilt
\* document holds at the collection pointer what the recomputation gives
ShadowedLeafNotApplied ==
    \A i \in 1..Len(dirtyPaths'), j \in 1..Len(dirtyCollectionPaths') :
        IsPathPrefix(dirtyCollectionPaths'[j], dirtyPaths'[i])
        => getValueAtPointer(data', dirtyCollectionPaths'[j])
               = RecomputedAt(dirtyCollectionPaths'[j])

\* C23: an edit of a control under an array or map root, an add or a removal of an
\* item and a rename of a map key add the collection root to the Dirty Collection Set
\* and leave the Dirty Leaf Set unchanged; the rebuild does not apply a dirty leaf at or
\* below a dirty collection pointer, it recomputes the whole collection
C23_CollectionDirtiness ==
    [][ FormEditStep => CollectionMarked /\ ShadowedLeafNotApplied ]_vars


\* ---- C31
\* the parts of the call's pointer, and how many lead to the parent of its last part
CallParts == parsePointer(call.pointer)
ParentLen == Len(CallParts) - 1

\* deleteValueAtPointer was called with a pointer that is not empty
Deleted == call.fn = "deleteValueAtPointer" /\ CallParts # <<>>

\* pointer q lies in the parent of the call's pointer
InParent(q) ==
    /\ ParentLen <= Len(parsePointer(q))
    /\ SubSeq(parsePointer(q), 1, ParentLen) = SubSeq(CallParts, 1, ParentLen)

\* delete at the index of an element of an array takes that element out and moves the
\* later ones down by one: the array is one shorter and has no hole
C31_IndexSpliced ==
    (/\ Deleted
     /\ RootAtPrefix(ParentLen).t = "a"
     /\ CallParts[Len(CallParts)].num
     /\ CallParts[Len(CallParts)].n < Len(RootAtPrefix(ParentLen).v)) =>
        /\ OutAtPrefix(ParentLen).t = "a"
        /\ Len(OutAtPrefix(ParentLen).v) = Len(RootAtPrefix(ParentLen).v) - 1
        /\ \A i \in 1..Len(OutAtPrefix(ParentLen).v) :
               /\ OutAtPrefix(ParentLen).v[i] # Undef
               /\ OutAtPrefix(ParentLen).v[i] =
                      RootAtPrefix(ParentLen).v[IF i <= CallParts[Len(CallParts)].n
                                                THEN i ELSE i + 1]

\* delete at a key of an object takes out that key and no other
C31_KeyRemoved ==
    (Deleted /\ RootAtPrefix(ParentLen).t = "o") =>
        /\ OutAtPrefix(ParentLen).t = "o"
        /\ KeySet(OutAtPrefix(ParentLen).v)
               = KeySet(RootAtPrefix(ParentLen).v) \ {CallParts[Len(CallParts)].s}
        /\ \A k \in KeySet(OutAtPrefix(ParentLen).v) :
               GetKey(OutAtPrefix(ParentLen).v, k) = GetKey(RootAtPrefix(ParentLen).v, k)

\* delete below a parent that is missing, null or a scalar, delete past the end of an
\* array and delete with the empty pointer leave the root as it was
C31_NoParentNoChange ==
    (/\ call.fn = "deleteValueAtPointer"
     /\ \/ CallParts = <<>>
        \/ RootAtPrefix(ParentLen).t \notin {"o", "a"}
        \/ /\ RootAtPrefix(ParentLen).t = "a"
           /\ CallParts[Len(CallParts)].num
           /\ CallParts[Len(CallParts)].n >= Len(RootAtPrefix(ParentLen).v)) =>
        call.out = ObjectOf(call.root)

\* delete leaves every location off the pointer as it was, the later elements of the
\* array it splices apart
C31_OtherLocationsKept ==
    Deleted =>
        \A q \in Pointers :
            (/\ ~OnPointer(q, call.pointer)
             /\ RootAtPrefix(ParentLen).t = "a" => ~InParent(q)) =>
                getValueAtPointer(call.out.v, q) = getValueAtPointer(call.root, q)

\* C31: delete(root, p) at the index of an element of an array removes that element and
\* shifts every later element down by one (the length decreases by exactly 1 and no
\* hole remains), at a key of an object it removes only that key, and when the parent
\* of p is missing or not a container the root is unchanged
C31_DeleteSplices ==
    /\ C31_IndexSpliced
    /\ C31_KeyRemoved
    /\ C31_NoParentNoChange
    /\ C31_OtherLocationsKept

\* C31 witness: the first of three elements was deleted and the other two moved down
C31_Witness ==
    /\ call.fn = "deleteValueAtPointer"
    /\ call.pointer = "/r/0"
    /\ getValueAtPointer(call.root, "/r") = ArrayOf(<<Scalar(1), Scalar(2), Scalar(3)>>)
    /\ getValueAtPointer(call.out.v, "/r") = ArrayOf(<<Scalar(2), Scalar(3)>>)
    /\ getValueAtPointer(call.out.v, "/a") = Scalar(1)


\* ---- C32
\* the debounce timer's callback runs on a text that parses
SnapshotTaken == syncTimer.set /\ ~syncTimer'.set /\ Parses(text)

\* a callback that awaited the schema goes on
ReloadSettled == Len(reload') < Len(reload)

\* the callback that goes on is the i-th of those that wait
SettledAt(i) == reload' = SubSeq(reload, 1, i - 1) \o SubSeq(reload, i + 1, Len(reload))

\* the snapshot is held back for the schema at newUrl, which is recorded
HeldForSchema(newUrl) ==
    /\ schemaUrl' = newUrl
    /\ reload' = Append(reload, [url |-> newUrl, json |-> Stringify(Parse(text))])
    /\ toForm' = toForm

\* the snapshot is posted, alone, and the recorded URL stays
PostedAlone ==
    /\ toForm' = Append(toForm, LoadJsonMsg(Stringify(Parse(text))))
    /\ UNCHANGED <<schemaUrl, reload>>

\* C32 as stated: a snapshot whose $schema value is not the recorded URL has its value
\* recorded and is posted after the regenerated loadSchema, any other is posted alone
C32_ReloadWhenDiffers ==
    [][ /\ SnapshotTaken =>
            IF GetKey(Parse(text), SchemaKey) # Scalar(schemaUrl)
            THEN HeldForSchema(nextSchemaUrlOf(Parse(text)))
            ELSE PostedAlone
        /\ ReloadSettled =>
            \E i \in 1..Len(reload) :
                /\ SettledAt(i)
                /\ toForm' = toForm \o <<LoadSchemaMsg, LoadJsonMsg(reload[i].json)>> ]_vars

\* C32: a snapshot whose $schema is a string other than the recorded URL has that URL
\* recorded and is posted only when the schema has been loaded, right after the
\* regenerated loadSchema (or after showError when loading failed); a snapshot whose
\* $schema is the recorded URL, is missing or is not a string is posted alone and the
\* recorded URL stays
C32_ReloadWhenUrlDiffers ==
    [][ /\ SnapshotTaken =>
            IF /\ GetKey(Parse(text), SchemaKey).t = "s"
               /\ GetKey(Parse(text), SchemaKey).v[1] \in SchemaUrls \ {schemaUrl}
            THEN HeldForSchema(GetKey(Parse(text), SchemaKey).v[1])
            ELSE PostedAlone
        /\ ReloadSettled =>
            \E i \in 1..Len(reload) :
                /\ SettledAt(i)
                /\ \/ toForm' = toForm \o <<LoadSchemaMsg, LoadJsonMsg(reload[i].json)>>
                   \/ toForm' = toForm \o <<ShowErrorMsg, LoadJsonMsg(reload[i].json)>> ]_vars

\* C32 witness: the form has a loadSchema before it that is followed by the snapshot
\* with the $schema the owner has recorded in place of the one it was opened with
C32_Witness ==
    /\ schemaUrl # BoundSchemaUrl
    /\ \E i \in 1..(Len(toForm) - 1) :
           /\ toForm[i] = LoadSchemaMsg
           /\ toForm[i + 1].command = "loadJson"
           /\ nextSchemaUrlOf(Parse(toForm[i + 1].json)) = schemaUrl


\* ---- C39
\* message m is posted to the form in this step
PostedToForm(m) ==
    \E n \in 1..Len(toForm') :
        /\ n > Len(toForm) - (IF toForm # <<>> /\ toForm'[1] # toForm[1] THEN 1 ELSE 0)
        /\ toForm'[n] = m
        /\ Len(toForm') > Len(toForm)

\* C39: the snapshot of a debounced loadJson is the parsed text at the moment it is
\* posted; with one external edit at most, the one that armed the timer, a difference
\* can only come from a write of the form applied after the callback parsed the text
C39_SnapshotIsCurrent ==
    [][ \A n \in 1..Len(toForm') :
            (/\ nExtEdits <= 1
             /\ toForm'[n].command = "loadJson"
             /\ toForm'[n].reason # "ready"
             /\ PostedToForm(toForm'[n])
             /\ n > Len(toForm)) =>
                /\ Parses(text)
                /\ toForm'[n].json = Stringify(Parse(text)) ]_vars


\* ---- C33
\* the owner takes an updateJson envelope off its queue
EnvelopeTaken ==
    /\ ownerPc = "idle"
    /\ toOwner # <<>>
    /\ Head(toOwner).command = "updateJson"
    /\ toOwner' = Tail(toOwner)

\* the step posts one message to the form, an updateJsonAck that carries rev
AnsweredOnce(rev) ==
    /\ Len(toForm') = Len(toForm) + 1
    /\ SubSeq(toForm', 1, Len(toForm)) = toForm
    /\ toForm'[Len(toForm')].command = "updateJsonAck"
    /\ toForm'[Len(toForm')].rev = rev

\* the step posts an updateJsonAck
AckPosted ==
    /\ Len(toForm') > Len(toForm)
    /\ toForm'[Len(toForm')].command = "updateJsonAck"

\* C33: the step that ends the handling of an updateJson envelope posts one
\* updateJsonAck with the envelope's rev, a step that takes the envelope or carries its
\* handling on posts nothing, and no other step posts an updateJsonAck
C33_EveryEnvelopeAnsweredOnce ==
    [][ /\ (EnvelopeTaken /\ ownerPc' = "idle") => AnsweredOnce(Head(toOwner).rev)
        /\ (EnvelopeTaken /\ ownerPc' # "idle") => (toForm' = toForm /\ cur' = Head(toOwner))
        /\ (ownerPc # "idle" /\ ownerPc' = "idle") => AnsweredOnce(cur.rev)
        /\ (ownerPc # "idle" /\ ownerPc' # "idle" /\ ownerPc' # ownerPc) =>
               (toForm' = toForm /\ cur' = cur)
        /\ AckPosted => \/ EnvelopeTaken /\ ownerPc' = "idle"
                        \/ ownerPc # "idle" /\ ownerPc' = "idle" ]_vars

\* C33 witness: the write the form sent last was refused because applyEdit threw, and
\* an earlier write of it was acknowledged ok
C33_Witness ==
    /\ toForm # <<>>
    /\ toForm[Len(toForm)] = AckMsg(FALSE, lastSentRev, "exception")
    /\ lastSentRev = 2
    /\ ackLog = <<1>>


\* ---- C34
\* the owner handles the ready of a session other than the one it has on record
ReadyOfNewSession ==
    /\ ownerPc = "idle"
    /\ toOwner # <<>>
    /\ Head(toOwner).command = "ready"
    /\ toOwner' = Tail(toOwner)
    /\ ~lastApplied.set \/ lastApplied.sessionId # Head(toOwner).sessionId

\* the envelope (sid, rev) is acknowledged ok in this step
AcknowledgedOk(sid, rev) ==
    /\ AnsweredOnce(rev)
    /\ toForm'[Len(toForm')].ok
    /\ \/ EnvelopeTaken /\ Head(toOwner).sessionId = sid
       \/ ownerPc # "idle" /\ cur.sessionId = sid

\* the write the owner is handling replaces the text
WriteApplied == ownerPc = "applyEdit" /\ ownerPc' = "ack" /\ text' = cur.json

\* C34: lastAppliedRev changes only to the rev of a write that is acknowledged ok,
\* which within a session is higher than the one before, or to 0 at the ready of a new
\* session; and a write that is applied to the text has a higher rev than every write
\* of its session applied before
C34_AppliedRevsIncrease ==
    [][ /\ lastApplied' # lastApplied =>
               \/ /\ ReadyOfNewSession
                  /\ lastApplied' = [sessionId |-> Head(toOwner).sessionId, rev |-> 0,
                                     set |-> TRUE]
               \/ /\ AcknowledgedOk(lastApplied'.sessionId, lastApplied'.rev)
                  /\ (lastApplied.set /\ lastApplied.sessionId = lastApplied'.sessionId) =>
                         lastApplied'.rev > lastApplied.rev
        /\ WriteApplied => cur.rev > appliedRev[cur.sessionId] ]_vars

\* C34 witness: after rev 2 of the first session, rev 1 of the session of the reloaded
\* webview has been applied and is on record
C34_Witness ==
    /\ appliedRev[1] = 2
    /\ appliedRev[2] = 1
    /\ lastApplied = [sessionId |-> 2, rev |-> 1, set |-> TRUE]


\* ---- C35
\* the counters of the replica are in order: acknowledged <= sent = outgoing counter
CountersInOrder ==
    /\ 0 <= lastAckRev
    /\ lastAckRev <= lastSentRev
    /\ lastSentRev = syncRev

\* C35: in every state of a session of the replica 0 <= lastAckRev <= lastSentRev and
\* lastSentRev is the outgoing counter, and within a session lastAckRev never decreases
C35_CountersInOrder ==
    /\ []CountersInOrder
    /\ [][sessionId' = sessionId => lastAckRev' >= lastAckRev]_vars


\* ---- C38
\* the owner replaces the text by the write of the envelope it is handling
WriteOfSessionApplied(sid) ==
    /\ ownerPc = "applyEdit"
    /\ ownerPc' = "ack"
    /\ cur.sessionId = sid
    /\ text' = cur.json

\* C38: on a binding whose document parses the owner applies a write of a session only
\* after it has posted a loadJson snapshot to the page of that session, the session of
\* a reloaded webview included
C38_SnapshotBeforeWrite ==
    [][ \A sid \in Sessions :
            (Parses(text) /\ WriteOfSessionApplied(sid)) => sid \in snapshotSent ]_vars


\* ---- C36
\* both dirty sets are empty
NothingDirty(dps, dcs) == dps = <<>> /\ dcs = <<>>

\* the live value is the Base Snapshot: a snapshot was accepted or the latest write
\* acknowledged, and nothing was edited since
BaseIsLive == NothingDirty(dirtyPaths, dirtyCollectionPaths) /\ data = baseData

\* C36: with both dirty sets empty buildUpdatedJson returns the Base Snapshot, whatever
\* it holds, and a form change event that leaves both sets empty right after an accepted
\* snapshot or a latest acknowledgment sends no envelope
C36_CleanBuildIsBase ==
    /\ [](NothingDirty(dirtyPaths, dirtyCollectionPaths) =>
              buildUpdatedJson(baseData, dirtyPaths, dirtyCollectionPaths, ctl, arrItems,
                               mapItems, dom) = baseData)
    /\ [][ (/\ BaseIsLive
            /\ nFormEdits' = nFormEdits + 1
            /\ NothingDirty(dirtyPaths', dirtyCollectionPaths')) => toOwner' = toOwner ]_vars


\* ---- C37
\* the form handles the loadJson at the head of its queue and ignores it as its own echo
IgnoredAsEcho ==
    /\ toForm # <<>>
    /\ Head(toForm).command = "loadJson"
    /\ toForm' = Tail(toForm)
    /\ IsOwnEcho(Head(toForm).json)

\* C37: a loadJson the replica ignores as its own echo carries a snapshot semantically
\* equal to the replica's live value, so a snapshot equal to the last-sent content is
\* not ignored once another snapshot has been accepted since the send
C37_IgnoredEchoIsLive ==
    [][ IgnoredAsEcho => deepEqualJson(Parse(Head(toForm).json), data) ]_vars


\* ---- C40
\* nothing is registered under panelId in the maps keyed by it
NothingUnder(panelId) ==
    /\ reg.webviewPanelMap[panelId] = NoPanel
    /\ panelId \notin reg.pendingDataMap
    /\ panelId \notin reg.panelSchemaUrlMap
    /\ panelId \notin reg.suppressNextDocToWebviewSync
    /\ panelId \notin reg.docToWebviewSyncTimers
    /\ panelId \notin reg.messageQueueMap
    /\ panelId \notin reg.lastAppliedRevMap

\* panelId is the key of a panel that is open, or the one a handler of it works under
KeyOfLivePanel(panelId) ==
    \E q \in LivePanels(reg) : reg.panelToIdMap[q] = panelId \/ reg.handling[q] = panelId

\* a disposed panel has no id, no source URI and no state under a key it had, unless
\* an open panel has that key now
NothingLeftOfDisposed ==
    \A p \in reg.disposed :
        /\ reg.panelToIdMap[p] = NoKey
        /\ reg.sourceUriMap[p] = NoKey
        /\ \A panelId \in reg.keysOf[p] : KeyOfLivePanel(panelId) \/ NothingUnder(panelId)

\* the panel openEditor would find for an open document is not a disposed one
NoDisposedPanelFound ==
    \A d \in Docs : reg.webviewPanelMap[reg.uri[d]] \notin reg.disposed

\* C40: once a panel is disposed nothing is registered for it: none of the keys it had,
\* the one a Save-As gave it included, holds state unless an open panel has the key
\* now, the panel has no id and no source URI, and openEditor for an open document
\* finds no disposed panel
C40_NothingLeftAfterDispose ==
    /\ []NothingLeftOfDisposed
    /\ []NoDisposedPanelFound

====
